---- MODULE Spec2Model ----
(***************************************************************************)
(* Model of tcalc's parser (core/parser.rs), its Ast (core/ast.rs), its    *)
(* tokens (core/tokens.rs) and name tables (core/patterns.rs), and of the  *)
(* control flow of the evaluator (core/evaluator.rs).                      *)
(*                                                                         *)
(* Text is a sequence of one-character strings.  Rust indices are 0-based, *)
(* TLA+ sequences 1-based: index i of the model is index i-1 of the code,  *)
(* and a column is computed as chr + (i - 1).                              *)
(***************************************************************************)
EXTENDS Integers, Sequences, FiniteSets, TLC

\* ------------------------------------------------------------------------
\* Bounds of the model
\* ------------------------------------------------------------------------

\* Longest free-form input text, in characters.
MaxLen == 4

\* Most characters given, over consecutive calls, to a Parser that keeps
\* nodes of a failed call: a Parser that was given more is emptied (reset)
\* before its next call.
MaxStale == 3

\* Most evaluate calls on one tree.
MaxEvals == 2

\* ------------------------------------------------------------------------
\* core/patterns.rs: character classes and name tables
\* ------------------------------------------------------------------------

Digits == {"0", "1", "2", "3", "4", "5", "6", "7", "8", "9"}

NUMERAL_INITIAL_CHARS == Digits \cup {".", ","}

NUMERAL_INTERNAL_CHARS ==
    Digits \cup {".", ",", "a", "b", "c", "d", "e", "f", "o", "x",
                 "A", "B", "C", "D", "E", "F", "O", "X", "_"}

IGNORABLE_WHITESPACE_CHARS == {" ", "\t"}

OPERATOR_INITIAL_CHARS ==
    {"+", "-", "!", "^", "*", "/", "%", "¬", "<", ">", "=", ":", "&", "|", "?", "~"}

OPERATOR_INTERNAL_CHARS == OPERATOR_INITIAL_CHARS

\* The literal of the source lists "o" where the alphabet has "i" (and "O"
\* for "I"): the set has no "i" and no "I".
IDENTIFIER_INITIAL_CHARS ==
    {"a", "b", "c", "d", "e", "f", "g", "h", "o", "j", "k", "l", "m", "n", "o",
     "p", "q", "r", "s", "t", "u", "v", "w", "x", "y", "z",
     "A", "B", "C", "D", "E", "F", "G", "H", "O", "J", "K", "L", "M", "N", "O",
     "P", "Q", "R", "S", "T", "U", "V", "W", "X", "Y", "Z", "\\"}

IDENTIFIER_INTERNAL_CHARS == IDENTIFIER_INITIAL_CHARS

AMBIGUOUS_OPERATORS == {<<"+">>, <<"-">>}

UNARY_OPERATORS == {<<"+">>, <<"-">>, <<"!">>, <<"¬">>, <<"~">>}

BINARY_OPERATORS ==
    {<<"^">>, <<"*">>, <<"/">>, <<"%">>, <<"+">>, <<"-">>, <<"<", "=", ">">>,
     <<"<", "=">>, <<">", "=">>, <<":", "=">>, <<"<", "<", "<">>,
     <<">", ">", ">">>, <<"<", "<">>, <<">", ">">>, <<"<">>, <<">">>,
     <<"!", "=">>, <<"=", "=">>, <<"&", "&">>, <<"|", "|">>, <<"?", "?">>,
     <<"!", "?">>, <<"&">>, <<"|">>, <<"^", "|">>}

BUILTIN_UNARY_FUNCTIONS ==
    {<<"a", "b", "s">>, <<"n", "o", "t">>, <<"s", "i", "n">>, <<"c", "o", "s">>,
     <<"t", "a", "n">>, <<"c", "o", "t">>, <<"s", "e", "c">>, <<"c", "s", "c">>,
     <<"e", "x", "p">>, <<"l", "n">>, <<"l", "g">>, <<"l", "o", "g">>,
     <<"s", "q", "r", "t">>, <<"c", "b", "r", "t">>, <<"m", "e", "m">>}

BUILTIN_BINARY_FUNCTIONS ==
    {<<"r", "t">>, <<"l", "o", "g", "b">>, <<"c", "h", "o", "o", "s", "e">>}

\* A variant of the table with the additive tier above the multiplicative
\* one, which the precedence property must tell apart from the table.
AdditiveFirstPrecedence ==
    << {<<"^">>},
       {<<"+">>, <<"-">>},
       {<<"*">>, <<"/">>, <<"%">>},
       {<<"<", "<">>, <<">", ">">>, <<"<", "<", "<">>, <<">", ">", ">">>},
       {<<"&">>},
       {<<"|">>},
       {<<"^", "|">>},
       {<<">">>, <<"<">>, <<"<", "=">>, <<">", "=">>, <<"!", "=">>, <<"=", "=">>,
        <<"<", "=", ">">>, <<"?", "?">>, <<"!", "?">>},
       {<<"&", "&">>, <<"|", "|">>},
       {<<":", "=">>} >>

\* Precedence tiers, tightest first.
BINARY_OPERATOR_PRECEDENCE ==
    << {<<"^">>},
       {<<"*">>, <<"/">>, <<"%">>},
       {<<"+">>, <<"-">>},
       {<<"<", "<">>, <<">", ">">>, <<"<", "<", "<">>, <<">", ">", ">">>},
       {<<"&">>},
       {<<"|">>},
       {<<"^", "|">>},
       {<<">">>, <<"<">>, <<"<", "=">>, <<">", "=">>, <<"!", "=">>, <<"=", "=">>,
        <<"<", "=", ">">>, <<"?", "?">>, <<"!", "?">>},
       {<<"&", "&">>, <<"|", "|">>},
       {<<":", "=">>} >>

\* ------------------------------------------------------------------------
\* core/tokens.rs: token kinds and tokens
\* ------------------------------------------------------------------------

\* The parser spells the Decimal kind "Rational"; the enumeration of
\* tokens.rs calls it Decimal.
TokenType ==
    {"AmbiguousOperator", "BinaryFunctionIdentifier", "BinaryOperator", "Bitseq",
     "Decimal", "Expression", "Integer", "UnaryFunctionIdentifier",
     "UnaryOperator", "VariableIdentifier"}

is_numeral(t) == t \in {"Bitseq", "Decimal", "Integer"}

is_operator(t) == t \in {"AmbiguousOperator", "BinaryOperator", "UnaryOperator"}

is_unary(t) == t \in {"UnaryFunctionIdentifier", "UnaryOperator"}

is_binary(t) == t \in {"BinaryFunctionIdentifier", "BinaryOperator"}

is_variable_identifier(t) == t = "VariableIdentifier"

is_terminal(t) == t \in {"Bitseq", "Decimal", "Integer", "VariableIdentifier"}

Position(line, chr) == [line |-> line, chr |-> chr]

Token(type_, content, position) ==
    [type_ |-> type_, content |-> content, position |-> position, implicit |-> FALSE]

new_implicit(type_, content, position) ==
    [type_ |-> type_, content |-> content, position |-> position, implicit |-> TRUE]

\* ------------------------------------------------------------------------
\* core/ast.rs: Ast and AstNode
\* ------------------------------------------------------------------------

\* Option<T> is a sequence of length 0 (None) or 1 (Some).
None == << >>

Some(v) == << v >>

AstNew == [_vec |-> << >>, _level |-> 0]

new_from_token(token) == [token |-> token, subtree |-> None, value |-> None]

new_with_subtree(token, subtree) ==
    [token |-> token, subtree |-> Some(subtree), value |-> None]

has_subtree(node) == node.subtree # None

set_subtree(node, subtree) == [node EXCEPT !.subtree = Some(subtree)]

\* A mutant of relevel_from: the level is set and the subtrees are left alone.
RelevelShallow(ast, base_level) == [ast EXCEPT !._level = base_level]

RECURSIVE relevel_from(_, _)
relevel_from(ast, base_level) ==
    [_level |-> base_level,
     _vec   |-> [k \in 1..Len(ast._vec) |->
                   IF has_subtree(ast._vec[k])
                   THEN [ast._vec[k] EXCEPT
                           !.subtree = Some(relevel_from(ast._vec[k].subtree[1],
                                                         base_level + 1))]
                   ELSE ast._vec[k]]]

\* Ast::push relevels the pushed node's subtree from the receiver's own level.
push(ast, item) ==
    LET it == IF has_subtree(item)
              THEN [item EXCEPT !.subtree = Some(relevel_from(item.subtree[1], ast._level))]
              ELSE item
    IN  [ast EXCEPT !._vec = Append(ast._vec, it)]

push_subtree(ast, token, subtree) ==
    [ast EXCEPT !._vec = Append(ast._vec,
                    new_with_subtree(token, relevel_from(subtree, ast._level + 1)))]

push_token(ast, token) == [ast EXCEPT !._vec = Append(ast._vec, new_from_token(token))]

AstFromNode(node) == push(AstNew, node)

RECURSIVE PushAll(_, _, _)
PushAll(ast, nodes, k) ==
    IF k > Len(nodes) THEN ast ELSE PushAll(push(ast, nodes[k]), nodes, k + 1)

AstFromVec(nodes) == PushAll(AstNew, nodes, 1)

\* Vec::remove and Vec::insert on the tree's node vector (1-based index).
VecRemove(v, i) == SubSeq(v, 1, i - 1) \o SubSeq(v, i + 1, Len(v))

VecInsert(v, i, item) == SubSeq(v, 1, i - 1) \o << item >> \o SubSeq(v, i, Len(v))

\* ------------------------------------------------------------------------
\* core/parser.rs: results
\* ------------------------------------------------------------------------

\* A pass returns the tree as it left it and the error, if any: the tree a
\* failing pass was mutating stays in the state it had when the pass returned.
Ok(tree) == [err |-> None, tree |-> tree]

Err(msg, position, tree) ==
    [err |-> Some([msg |-> msg, position |-> position]), tree |-> tree]

IsOk(r) == r.err = None

\* ------------------------------------------------------------------------
\* core/parser.rs: tokenizer
\* ------------------------------------------------------------------------

\* Characters of input from index start on, while they are in charset.
RECURSIVE _copy_while(_, _, _)
_copy_while(input, charset, start) ==
    IF start > Len(input) \/ input[start] \notin charset
    THEN << >>
    ELSE << input[start] >> \o _copy_while(input, charset, start + 1)

\* Characters from start up to the parenthesis closing the one already open;
\* matched is FALSE when the input ends first.
RECURSIVE CopySpanLoop(_, _, _, _)
CopySpanLoop(input, k, parens, buf) ==
    IF k > Len(input)
    THEN [matched |-> FALSE, buf |-> buf]
    ELSE LET p == IF input[k] = "(" THEN parens + 1
                  ELSE IF input[k] = ")" THEN parens - 1
                  ELSE parens
         IN  IF p < 1
             THEN [matched |-> TRUE, buf |-> buf]
             ELSE CopySpanLoop(input, k + 1, p, Append(buf, input[k]))

_copy_matchedspan(input, start) == CopySpanLoop(input, start, 1, << >>)

StartsWith(buf, pre) == Len(buf) >= Len(pre) /\ SubSeq(buf, 1, Len(pre)) = pre

Contains(buf, c) == \E k \in 1..Len(buf) : buf[k] = c

NumeralType(buf) ==
    IF Contains(buf, ".") \/ Contains(buf, ",") THEN "Decimal"
    ELSE IF StartsWith(buf, <<"0", "b">>) THEN "Bitseq"
    ELSE "Integer"

IdentifierType(buf) ==
    IF buf \in BUILTIN_UNARY_FUNCTIONS THEN "UnaryFunctionIdentifier"
    ELSE IF buf \in BUILTIN_BINARY_FUNCTIONS THEN "BinaryFunctionIdentifier"
    ELSE "VariableIdentifier"

\* "None" stands for the unknown-operator branch.
OperatorType(buf) ==
    IF buf \in AMBIGUOUS_OPERATORS THEN "AmbiguousOperator"
    ELSE IF buf \in UNARY_OPERATORS THEN "UnaryOperator"
    ELSE IF buf \in BINARY_OPERATORS THEN "BinaryOperator"
    ELSE "None"

RECURSIVE TokenizeLoop(_, _, _, _, _)
TokenizeLoop(input, i, line, chr, tree) ==
    IF i > Len(input) THEN Ok(tree)
    ELSE
    LET c   == input[i]
        pos == Position(line, chr + (i - 1))
    IN  IF c \in IGNORABLE_WHITESPACE_CHARS
        THEN TokenizeLoop(input, i + 1, line, chr, tree)
        ELSE IF c = "("
        THEN LET span == _copy_matchedspan(input, i + 1)
             IN  IF ~span.matched
                 THEN Err("Could not match open parenthesis with closing parenthesis",
                          pos, tree)
                 ELSE TokenizeLoop(input, i + Len(span.buf) + 2, line, chr,
                                   push_token(tree, Token("Expression", span.buf, pos)))
        ELSE IF c \in NUMERAL_INITIAL_CHARS
        THEN LET buf == << c >> \o _copy_while(input, NUMERAL_INTERNAL_CHARS, i + 1)
             IN  TokenizeLoop(input, i + Len(buf), line, chr,
                              push_token(tree, Token(NumeralType(buf), buf, pos)))
        ELSE IF c \in IDENTIFIER_INITIAL_CHARS
        THEN LET buf == << c >> \o _copy_while(input, IDENTIFIER_INTERNAL_CHARS, i + 1)
             IN  TokenizeLoop(input, i + Len(buf), line, chr,
                              push_token(tree, Token(IdentifierType(buf), buf, pos)))
        ELSE IF c \in OPERATOR_INITIAL_CHARS
        THEN LET buf == << c >> \o _copy_while(input, OPERATOR_INTERNAL_CHARS, i + 1)
             IN  IF OperatorType(buf) = "None"
                 THEN Err("Unknown operator", pos, tree)
                 ELSE TokenizeLoop(input, i + Len(buf), line, chr,
                                   push_token(tree, Token(OperatorType(buf), buf, pos)))
        ELSE IF c = ")"
        THEN Err("Unexpected closing parenthesis", pos, tree)
        ELSE Err("Unknown character", pos, tree)

tokenize(input, line, chr, tree) == TokenizeLoop(input, 1, line, chr, tree)

\* ------------------------------------------------------------------------
\* core/parser.rs: structural passes
\* ------------------------------------------------------------------------

Factorial == <<"!">>

\* A variant of the match on tree[i - 1] that does not take a postfix `!` for
\* a value, which the disambiguation property must tell apart from the match.
LeftIsValueButPostfix(token) ==
    token.type_ \in {"Bitseq", "Expression", "Integer", "Decimal", "VariableIdentifier"}

\* The match on tree[i - 1] of disambiguate_operators.
LeftIsValue(token) ==
    IF token.type_ = "UnaryOperator" THEN token.content = Factorial
    ELSE token.type_ \in {"Bitseq", "Expression", "Integer", "Decimal", "VariableIdentifier"}

\* The match on tree[i + 1] of disambiguate_operators, past its early return.
RightIsValue(token) ==
    token.type_ \in {"UnaryOperator", "AmbiguousOperator", "Bitseq", "Expression",
                     "Integer", "Decimal", "UnaryFunctionIdentifier",
                     "VariableIdentifier"}

RECURSIVE DisambiguateLoop(_, _)
DisambiguateLoop(tree, i) ==
    IF i > Len(tree._vec) THEN Ok(tree)
    ELSE IF tree._vec[i].token.type_ # "AmbiguousOperator"
    THEN DisambiguateLoop(tree, i + 1)
    ELSE
    LET tok == tree._vec[i].token
        has_left_value ==
            IF i < 2 THEN tree._level = 0 ELSE LeftIsValue(tree._vec[i - 1].token)
        has_right_value ==
            IF i + 1 > Len(tree._vec) THEN FALSE
            ELSE RightIsValue(tree._vec[i + 1].token)
    IN  IF /\ i + 1 <= Len(tree._vec)
           /\ tree._vec[i + 1].token.type_ = "UnaryOperator"
           /\ tree._vec[i + 1].token.content = Factorial
        THEN Err("Ambiguous operator cannot precede unary operator '!'",
                 tok.position, tree)
        ELSE IF has_left_value /\ has_right_value
        THEN DisambiguateLoop(
                 [tree EXCEPT !._vec[i].token.type_ = "BinaryOperator"], i + 1)
        ELSE IF ~has_left_value /\ has_right_value
        THEN DisambiguateLoop(
                 [tree EXCEPT !._vec[i].token.type_ = "UnaryOperator"], i + 1)
        ELSE Err("Could not disambiguate ambiguous operator, consider using parentheses",
                 tok.position, tree)

disambiguate_operators(tree) == DisambiguateLoop(tree, 1)

\* The two matches of expose_implicit_multiplications.
is_value(token) ==
    IF token.type_ = "UnaryOperator" THEN token.content = Factorial
    ELSE token.type_ \in {"Bitseq", "Expression", "Integer", "Decimal", "VariableIdentifier"}

\* A variant of the match on tree[i + 1] that takes every unary operator,
\* `!` too, for the start of a value.
NextIsValueOrPostfix(token) ==
    token.type_ \in {"UnaryOperator", "Bitseq", "Expression", "Integer", "Decimal",
                     "UnaryFunctionIdentifier", "VariableIdentifier"}

next_is_value(token) ==
    IF token.type_ = "UnaryOperator" THEN token.content # Factorial
    ELSE token.type_ \in {"Bitseq", "Expression", "Integer", "Decimal",
                          "UnaryFunctionIdentifier", "VariableIdentifier"}

ImplicitTimes(position) == new_implicit("BinaryOperator", <<"*">>, position)

RECURSIVE ImplicitMulLoop(_, _)
ImplicitMulLoop(tree, i) ==
    IF ~(i < Len(tree._vec)) THEN Ok(tree)
    ELSE IF is_value(tree._vec[i].token) /\ next_is_value(tree._vec[i + 1].token)
    THEN ImplicitMulLoop(
             [tree EXCEPT !._vec =
                 VecInsert(tree._vec, i + 1,
                           new_from_token(ImplicitTimes(tree._vec[i + 1].token.position)))],
             i + 2)
    ELSE ImplicitMulLoop(tree, i + 1)

expose_implicit_multiplications(tree) == ImplicitMulLoop(tree, 1)

Mem0Content == <<"(", "m", "e", "m", " ", "0", ")">>

_generate_mem0_call(position) ==
    new_with_subtree(
        new_implicit("Expression", Mem0Content, position),
        AstFromNode(new_with_subtree(
            new_implicit("UnaryFunctionIdentifier", <<"m", "e", "m">>, position),
            AstFromNode(new_from_token(new_implicit("Integer", <<"0">>, position))))))

expose_implicit_mem0_call(tree) ==
    IF tree._level > 0 \/ Len(tree._vec) < 1 THEN Ok(tree)
    ELSE IF tree._vec[1].token.type_ \in {"BinaryFunctionIdentifier", "BinaryOperator"}
    THEN LET call == _generate_mem0_call(tree._vec[1].token.position)
             sub  == relevel_from(call.subtree[1], tree._level + 1)
         IN  Ok([tree EXCEPT !._vec = VecInsert(tree._vec, 1, set_subtree(call, sub))])
    ELSE Ok(tree)

IsFactorial(token) == token.type_ = "UnaryOperator" /\ token.content = Factorial

IsPrefixUnary(token) ==
    \/ token.type_ = "UnaryOperator" /\ token.content # Factorial
    \/ token.type_ = "UnaryFunctionIdentifier"

\* Left to right: each postfix `!` takes the node before it as its subtree.
RECURSIVE FactorialLoop(_, _)
FactorialLoop(tree, i) ==
    IF i > Len(tree._vec) THEN Ok(tree)
    ELSE IF ~IsFactorial(tree._vec[i].token) THEN FactorialLoop(tree, i + 1)
    ELSE IF i < 2
    THEN Err("Unary operator '!' is missing a left-hand operand",
             tree._vec[i].token.position, tree)
    ELSE LET j       == i - 1
             subtree == relevel_from(push(AstNew, tree._vec[j]), tree._level + 1)
             vec     == VecRemove(tree._vec, j)
         IN  FactorialLoop(
                 [tree EXCEPT !._vec = [vec EXCEPT ![j] = set_subtree(vec[j], subtree)]],
                 j + 1)

_incorporate_factorials(tree) == FactorialLoop(tree, 1)

\* Right to left: each prefix operator or unary function takes the node
\* after it as its subtree.
RECURSIVE UnaryLoop(_, _)
UnaryLoop(tree, i) ==
    IF ~IsPrefixUnary(tree._vec[i].token)
    THEN IF i = 1 THEN Ok(tree) ELSE UnaryLoop(tree, i - 1)
    ELSE IF i + 1 > Len(tree._vec)
    THEN Err("Unary operator is missing a right-hand operand",
             tree._vec[i].token.position, tree)
    ELSE LET subtree == relevel_from(AstFromNode(tree._vec[i + 1]), tree._level + 1)
             vec     == VecRemove(tree._vec, i + 1)
             t2      == [tree EXCEPT !._vec = [vec EXCEPT ![i] = set_subtree(vec[i], subtree)]]
         IN  IF i = 1 THEN Ok(t2) ELSE UnaryLoop(t2, i - 1)

_incorporate_unary_ops_and_funcs(tree) ==
    IF Len(tree._vec) < 1 THEN Ok(tree) ELSE UnaryLoop(tree, Len(tree._vec))

\* Right to left over one precedence tier: each operator of the tier takes
\* the nodes before and after it as its subtree, left operand first.
RECURSIVE BinaryLoop(_, _, _)
BinaryLoop(tree, binops, i) ==
    IF ~(tree._vec[i].token.type_ = "BinaryOperator" /\ tree._vec[i].token.content \in binops)
    THEN IF i = 1 THEN Ok(tree) ELSE BinaryLoop(tree, binops, i - 1)
    ELSE IF i = 1
    THEN Err("Binary operator is missing a left-hand operand",
             tree._vec[i].token.position, tree)
    ELSE IF i + 1 > Len(tree._vec)
    THEN Err("Binary operator is missing a right-hand operand",
             tree._vec[i].token.position, tree)
    ELSE LET operands == << tree._vec[i - 1], tree._vec[i + 1] >>
             subtree  == relevel_from(AstFromVec(operands), tree._level + 1)
             vec      == VecRemove(VecRemove(tree._vec, i + 1), i - 1)
             j        == i - 1
             t2       == [tree EXCEPT !._vec = [vec EXCEPT ![j] = set_subtree(vec[j], subtree)]]
         IN  IF j = 1 THEN Ok(t2) ELSE BinaryLoop(t2, binops, j - 1)

\* A variant of the pass that scans the tier left to right, which the
\* associativity property must tell apart from the right-to-left scan.
RECURSIVE BinaryLoopLeftToRight(_, _, _)
BinaryLoopLeftToRight(tree, binops, i) ==
    IF i > Len(tree._vec) THEN Ok(tree)
    ELSE IF ~(tree._vec[i].token.type_ = "BinaryOperator" /\ tree._vec[i].token.content \in binops)
    THEN BinaryLoopLeftToRight(tree, binops, i + 1)
    ELSE IF i = 1
    THEN Err("Binary operator is missing a left-hand operand",
             tree._vec[i].token.position, tree)
    ELSE IF i + 1 > Len(tree._vec)
    THEN Err("Binary operator is missing a right-hand operand",
             tree._vec[i].token.position, tree)
    ELSE LET operands == << tree._vec[i - 1], tree._vec[i + 1] >>
             subtree  == relevel_from(AstFromVec(operands), tree._level + 1)
             vec      == VecRemove(VecRemove(tree._vec, i + 1), i - 1)
             j        == i - 1
         IN  BinaryLoopLeftToRight(
                 [tree EXCEPT !._vec = [vec EXCEPT ![j] = set_subtree(vec[j], subtree)]],
                 binops, j + 1)

IncorporateBinaryOpSetLeftToRight(tree, binops) ==
    BinaryLoopLeftToRight(tree, binops, 1)

_incorporate_binary_op_set(tree, binops) ==
    IF Len(tree._vec) < 1 THEN Ok(tree) ELSE BinaryLoop(tree, binops, Len(tree._vec))

RECURSIVE BinaryTiers(_, _)
BinaryTiers(tree, t) ==
    IF t > Len(BINARY_OPERATOR_PRECEDENCE) THEN Ok(tree)
    ELSE LET r == _incorporate_binary_op_set(tree, BINARY_OPERATOR_PRECEDENCE[t])
         IN  IF IsOk(r) THEN BinaryTiers(r.tree, t + 1) ELSE r

_incorporate_binary_ops(tree) == BinaryTiers(tree, 1)

\* A mutant of incorporate_operands: the prefix operators are folded before
\* the factorials.
IncorporateOperandsPrefixFirst(tree) ==
    LET r1 == _incorporate_unary_ops_and_funcs(tree)
    IN  IF ~IsOk(r1) THEN r1
        ELSE LET r2 == _incorporate_factorials(r1.tree)
             IN  IF ~IsOk(r2) THEN r2 ELSE _incorporate_binary_ops(r2.tree)

incorporate_operands(tree) ==
    LET r1 == _incorporate_factorials(tree)
    IN  IF ~IsOk(r1) THEN r1
        ELSE LET r2 == _incorporate_unary_ops_and_funcs(r1.tree)
             IN  IF ~IsOk(r2) THEN r2 ELSE _incorporate_binary_ops(r2.tree)

\* ------------------------------------------------------------------------
\* core/parser.rs: recursive parse
\* ------------------------------------------------------------------------

RECURSIVE _parse_recursively(_, _, _, _)
RECURSIVE ExpressionLoop(_, _, _)

\* The while loop of _parse_recursively: every Expression node of the level
\* gets the parse of its content as its subtree.
ExpressionLoop(tree, i, line) ==
    IF i > Len(tree._vec) THEN Ok(tree)
    ELSE IF tree._vec[i].token.type_ # "Expression" THEN ExpressionLoop(tree, i + 1, line)
    ELSE LET r == _parse_recursively(tree._vec[i].token.content, line,
                                     tree._vec[i].token.position.chr + 1,
                                     relevel_from(AstNew, tree._level + 1))
         IN  IF ~IsOk(r) THEN [err |-> r.err, tree |-> tree]
             ELSE ExpressionLoop(
                      [tree EXCEPT !._vec[i] = set_subtree(tree._vec[i], r.tree)],
                      i + 1, line)

_parse_recursively(input, line, chr, tree) ==
    LET r0 == tokenize(input, line, chr, tree)
    IN  IF ~IsOk(r0) THEN r0 ELSE
    LET r1 == ExpressionLoop(r0.tree, 1, line)
    IN  IF ~IsOk(r1) THEN r1 ELSE
    LET r2 == disambiguate_operators(r1.tree)
    IN  IF ~IsOk(r2) THEN r2 ELSE
    LET r3 == expose_implicit_multiplications(r2.tree)
    IN  IF ~IsOk(r3) THEN r3 ELSE
    LET r4 == expose_implicit_mem0_call(r3.tree)
    IN  IF ~IsOk(r4) THEN r4 ELSE
    incorporate_operands(r4.tree)

\* ------------------------------------------------------------------------
\* core/values.rs, core/bitseqs.rs: numeral literals and unary operations
\* ------------------------------------------------------------------------

AllIn(s, a, b, set) == \A k \in a..b : s[k] \in set

Separators == {".", ","}

BinDigits == {"0", "1"}

OctDigits == {"0", "1", "2", "3", "4", "5", "6", "7"}

HexDigits == Digits \cup {"a", "b", "c", "d", "e", "f", "A", "B", "C", "D", "E", "F"}

\* ^0[pP]body*last$ with body = digits and "_", last = digits
PrefixedInteger(s, prefix, digits) ==
    /\ Len(s) >= 3
    /\ s[1] = "0" /\ s[2] \in prefix
    /\ AllIn(s, 3, Len(s) - 1, digits \cup {"_"})
    /\ s[Len(s)] \in digits

\* ^0[pP]body*[.,](?:body*last)?$
PrefixedRational(s, prefix, digits) ==
    /\ Len(s) >= 3
    /\ s[1] = "0" /\ s[2] \in prefix
    /\ \E k \in 3..Len(s) :
          /\ s[k] \in Separators
          /\ AllIn(s, 3, k - 1, digits \cup {"_"})
          /\ \/ k = Len(s)
             \/ AllIn(s, k + 1, Len(s) - 1, digits \cup {"_"}) /\ s[Len(s)] \in digits

BINARY_INTEGER(s) == PrefixedInteger(s, {"b", "B"}, BinDigits)

BINARY_RATIONAL(s) == PrefixedRational(s, {"b", "B"}, BinDigits)

OCTAL_INTEGER(s) == PrefixedInteger(s, {"o", "O"}, OctDigits)

OCTAL_RATIONAL(s) == PrefixedRational(s, {"o", "O"}, OctDigits)

HEXADECIMAL_INTEGER(s) == PrefixedInteger(s, {"x", "X"}, HexDigits)

HEXADECIMAL_RATIONAL(s) == PrefixedRational(s, {"x", "X"}, HexDigits)

\* ^(?:0[dD]_?[0-9]|[0-9])(?:[0-9_]*[0-9])?$
DECIMAL_INTEGER(s) ==
    \E h \in {1, 3, 4} :
        /\ Len(s) >= h
        /\ \/ h = 1 /\ s[1] \in Digits
           \/ h = 3 /\ s[1] = "0" /\ s[2] \in {"d", "D"} /\ s[3] \in Digits
           \/ h = 4 /\ s[1] = "0" /\ s[2] \in {"d", "D"} /\ s[3] = "_" /\ s[4] \in Digits
        /\ \/ Len(s) = h
           \/ AllIn(s, h + 1, Len(s) - 1, Digits \cup {"_"}) /\ s[Len(s)] \in Digits

\* ^(?:0[dD]_?)?(?:[0-9]*|[0-9][0-9_]*)[.,](?:[0-9]*|[0-9_]*[0-9])$
DECIMAL_RATIONAL(s) ==
    \E h \in {0, 2, 3} :
        /\ Len(s) > h
        /\ \/ h = 0
           \/ h = 2 /\ s[1] = "0" /\ s[2] \in {"d", "D"}
           \/ h = 3 /\ s[1] = "0" /\ s[2] \in {"d", "D"} /\ s[3] = "_"
        /\ \E k \in (h + 1)..Len(s) :
              /\ s[k] \in Separators
              /\ \/ k = h + 1
                 \/ s[h + 1] \in Digits /\ AllIn(s, h + 2, k - 1, Digits \cup {"_"})
              /\ \/ k = Len(s)
                 \/ AllIn(s, k + 1, Len(s) - 1, Digits \cup {"_"}) /\ s[Len(s)] \in Digits

\* ^0[bBdDoOxX]
BASE_PREFIX(s) ==
    Len(s) >= 2 /\ s[1] = "0" /\ s[2] \in {"b", "B", "d", "D", "o", "O", "x", "X"}

\* 0 stands for None.
_check_str_and_get_base(s) ==
    IF BINARY_INTEGER(s) \/ BINARY_RATIONAL(s) THEN 2
    ELSE IF OCTAL_INTEGER(s) \/ OCTAL_RATIONAL(s) THEN 8
    ELSE IF DECIMAL_INTEGER(s) \/ DECIMAL_RATIONAL(s) THEN 10
    ELSE IF HEXADECIMAL_INTEGER(s) \/ HEXADECIMAL_RATIONAL(s) THEN 16
    ELSE 0

_has_fractional_separator(s) == Contains(s, ".") \/ Contains(s, ",")

RECURSIVE Normalise(_)
Normalise(s) ==
    IF s = << >> THEN << >>
    ELSE IF Head(s) = "_" THEN Normalise(Tail(s))
    ELSE << IF Head(s) = "," THEN "." ELSE Head(s) >> \o Normalise(Tail(s))

_strip_str(s) ==
    LET res == Normalise(s)
    IN  IF BASE_PREFIX(s) /\ Len(res) >= 2 THEN SubSeq(res, 3, Len(res)) ELSE res

_char_to_val(c) ==
    CASE c = "0" -> 0 [] c = "1" -> 1 [] c = "2" -> 2 [] c = "3" -> 3 [] c = "4" -> 4
      [] c = "5" -> 5 [] c = "6" -> 6 [] c = "7" -> 7 [] c = "8" -> 8 [] c = "9" -> 9
      [] c \in {"a", "A"} -> 10 [] c \in {"b", "B"} -> 11 [] c \in {"c", "C"} -> 12
      [] c \in {"d", "D"} -> 13 [] c \in {"e", "E"} -> 14 [] c \in {"f", "F"} -> 15
      [] OTHER -> 36

\* from_str_radix: the value of the digits, or -1 when there is no digit or
\* one that the radix does not have.
RECURSIVE RadixLoop(_, _, _)
RadixLoop(s, base, acc) ==
    IF s = << >> THEN acc
    ELSE IF _char_to_val(Head(s)) >= base THEN -1
    ELSE RadixLoop(Tail(s), base, acc * base + _char_to_val(Head(s)))

from_str_radix(s, base) == IF s = << >> THEN -1 ELSE RadixLoop(s, base, 0)

BitseqT_BITS == 128

BitseqZERO == [value |-> 0, len |-> 1]

from_integer(i) ==
    [type_ |-> "Integer", val_integer |-> i, val_decimal |-> 0, val_bitseq |-> BitseqZERO]

from_decimal(d) ==
    [type_ |-> "Decimal", val_integer |-> 0, val_decimal |-> d, val_bitseq |-> BitseqZERO]

from_bitseq(b) ==
    [type_ |-> "Bitseq", val_integer |-> 0, val_decimal |-> 0, val_bitseq |-> b]

\* Bitseq::from_str on the normalised digits.
BitseqFromStr(s) ==
    IF Len(s) < 1 \/ Len(s) > BitseqT_BITS \/ ~AllIn(s, 1, Len(s), BinDigits)
    THEN None
    ELSE Some([value |-> from_str_radix(s, 2), len |-> Len(s)])

ValueOk(v) == [ok |-> TRUE, value |-> v]

ValueErr(kind, msg) == [ok |-> FALSE, kind |-> kind, msg |-> msg]

_from_bitseq_str(s) ==
    LET b == BitseqFromStr(_strip_str(s))
    IN  IF b = None THEN ValueErr("SyntaxError", "Failed to parse string into bit-sequence value")
        ELSE ValueOk(from_bitseq(b[1]))

_from_int_str(s, base) ==
    LET i == from_str_radix(_strip_str(s), base)
    IN  IF i < 0 THEN ValueErr("SyntaxError", "Failed to parse string into integer value")
        ELSE ValueOk(from_integer(i))

\* A Decimal literal keeps its normalised digits and its radix: the model
\* does not compute the floating-point number.
_from_dec_str(s, base) == ValueOk(from_decimal([digits |-> _strip_str(s), base |-> base]))

ValueFromStr(s) ==
    LET base == _check_str_and_get_base(s)
    IN  IF base = 0 THEN ValueErr("SyntaxError", "The pattern of the numeral string is invalid")
        ELSE IF _has_fractional_separator(s) THEN _from_dec_str(s, base)
        ELSE IF base = 2 THEN _from_bitseq_str(s)
        ELSE _from_int_str(s, base)

unary_pos(v) == v

\* A Bitseq is converted to an Integer of the same bits first.
BitseqToInteger(v) ==
    IF v.type_ = "Bitseq"
    THEN [v EXCEPT !.type_ = "Integer", !.val_integer = v.val_bitseq.value,
                   !.val_bitseq = BitseqZERO]
    ELSE v

\* Integer is i128.  The model computes Integers exactly up to 12!; every
\* Integer above that stands as IntegerTop (and below -12! as -IntegerTop).
IntegerTop == 2147483647

unary_neg(v) ==
    LET r == BitseqToInteger(v)
    IN  IF r.type_ = "Decimal" THEN [r EXCEPT !.val_decimal = [negated |-> r.val_decimal]]
        ELSE [r EXCEPT !.val_integer = 0 - r.val_integer]

\* Greatest n whose factorial fits the 128-bit Integer: 33! < 2^127 <= 34!.
FactorialCeiling == 33

RECURSIVE FoldMul(_, _, _)
FoldMul(acc, k, n) == IF k >= n THEN acc ELSE FoldMul(acc * k, k + 1, n)

\* (1..n).try_fold(n, checked_mul): n * 1 * 2 * ... * (n - 1), None when the
\* product overflows.
FactorialFold(n) ==
    IF n > FactorialCeiling THEN None
    ELSE IF n > 12 THEN Some(IntegerTop)
    ELSE Some(FoldMul(n, 1, n))

factorial(v) ==
    LET r == BitseqToInteger(v)
    IN  IF r.type_ # "Integer" THEN [ok |-> FALSE, kind |-> "todo", msg |-> "not yet implemented"]
        ELSE IF r.val_integer < 0
        THEN ValueErr("InvalidOperationError",
                      "Factorial operation undefined for negative integers")
        ELSE IF FactorialFold(r.val_integer) = None
        THEN ValueErr("InvalidOperationError", "Factorial too large to fit Integer")
        ELSE ValueOk([r EXCEPT !.val_integer = FactorialFold(r.val_integer)[1]])

\* val_decimal == 0.0: a literal all of whose digits are 0, negated or not.
RECURSIVE DecimalIsZero(_)
DecimalIsZero(d) ==
    IF d = 0 THEN TRUE
    ELSE IF "negated" \in DOMAIN d THEN DecimalIsZero(d.negated)
    ELSE IF "digits" \in DOMAIN d THEN AllIn(d.digits, 1, Len(d.digits), {"0", "."})
    ELSE FALSE

logical_neg(v) ==
    LET is_zero == CASE v.type_ = "Bitseq" -> v.val_bitseq.value = 0
                     [] v.type_ = "Decimal" -> DecimalIsZero(v.val_decimal)
                     [] OTHER -> v.val_integer = 0
    IN  from_integer(IF is_zero THEN 1 ELSE 0)

RECURSIVE Pow2(_)
Pow2(n) == IF n = 0 THEN 1 ELSE 2 * Pow2(n - 1)

\* neg_mut with a mask of len + 1 one-bits.
NegMutInclusive(b) ==
    LET mask == Pow2(b.len + 1) - 1
        low  == b.value % Pow2(b.len + 1)
        high == b.value - low
    IN  [b EXCEPT !.value = high + (mask - low)]

\* neg_mut: xor with a mask of len one-bits.
neg_mut(b) ==
    LET mask == Pow2(b.len) - 1
        low  == b.value % Pow2(b.len)
        high == b.value - low
    IN  [b EXCEPT !.value = high + (mask - low)]

bitwise_neg(v) ==
    IF v.type_ # "Bitseq"
    THEN ValueErr("ConversionError",
                  "Cannot apply bitwise negation to a value other than a bit-sequence (Bitseq)")
    ELSE ValueOk([v EXCEPT !.val_bitseq = neg_mut(v.val_bitseq)])

\* ------------------------------------------------------------------------
\* core/bitseqs.rs, core/values.rs: conversions on 128-bit words
\* ------------------------------------------------------------------------

\* The numerals the parser reads are short, and above a number stands for
\* itself.  The conversions are about the full width: here an Integer (i128,
\* two's complement) and the bits of a Bitseq (u128) are words of
\* BitseqT_BITS bits, most significant bit first.
Zeros(n) == [k \in 1..n |-> 0]

Ones(n) == [k \in 1..n |-> 1]

\* The word whose low bits are the given ones.
Word(bits) == Zeros(BitseqT_BITS - Len(bits)) \o bits

IsWordZero(w) == \A k \in 1..Len(w) : w[k] = 0

\* u128::leading_zeros
leading_zeros(w) ==
    IF IsWordZero(w) THEN BitseqT_BITS
    ELSE (CHOOSE k \in 1..Len(w) : w[k] = 1 /\ \A j \in 1..(k - 1) : w[j] = 0) - 1

\* value < 0 on an i128
IsNegative(i) == i[1] = 1

\* Two's complement negation (wrapping): every bit inverted, then 1 added.
Increment(w) ==
    IF \A k \in 1..Len(w) : w[k] = 1 THEN Zeros(Len(w))
    ELSE LET z == CHOOSE k \in 1..Len(w) : w[k] = 0 /\ \A j \in (k + 1)..Len(w) : w[j] = 1
         IN  [k \in 1..Len(w) |-> IF k < z THEN w[k] ELSE IF k = z THEN 1 ELSE 0]

Negate(w) == Increment([k \in 1..Len(w) |-> 1 - w[k]])

\* BitseqT::try_from(Integer): the same bits, unless the Integer is negative.
U128TryFrom(i) == IF IsNegative(i) THEN None ELSE Some(i)

\* Integer::try_from(BitseqT): the same bits, unless they are 2^127 or more.
I128TryFrom(v) == IF v[1] = 1 THEN None ELSE Some(v)

\* Decimal is f64.  The decimals of this section are the numbers m and m + 1/2
\* and their negatives, for words m that an f64 holds exactly (at most 53 bits
\* from the highest to the lowest set bit), and 2^128.
Dec(neg, whole, half) == [neg |-> neg, whole |-> whole, half |-> half]

Exact(w) ==
    \/ IsWordZero(w)
    \/ LET lz == leading_zeros(w)
       IN  \A k \in 1..Len(w) : w[k] = 1 => k - lz <= 53

\* The f64 nearest to a word, ties to even: the 53 bits from the highest set
\* bit are kept and rounded by the bits below them.  A word that rounds up
\* to 2^128 gives that number, of 129 bits.
RoundF64(w) ==
    IF Exact(w) THEN w
    ELSE LET lz     == leading_zeros(w)
             last   == lz + 53
             sticky == \E k \in (last + 2)..Len(w) : w[k] = 1
             up     == w[last + 1] = 1 /\ (sticky \/ w[last] = 1)
             prefix == SubSeq(w, 1, last)
         IN  IF ~up THEN prefix \o Zeros(Len(w) - last)
             ELSE IF \A k \in 1..last : prefix[k] = 1 THEN << 1 >> \o Zeros(Len(w))
             ELSE Increment(prefix) \o Zeros(Len(w) - last)

\* `value as Decimal` on a u128 and on an i128.
U128AsDecimal(v) == Dec(FALSE, RoundF64(v), FALSE)

I128AsDecimal(i) ==
    IF IsNegative(i) THEN Dec(TRUE, RoundF64(Negate(i)), FALSE)
    ELSE Dec(FALSE, RoundF64(i), FALSE)

\* `value as BitseqT` and `value as Integer` on a Decimal: the fraction is
\* dropped and the cast saturates at the bounds of the target.
DecimalAsU128(d) ==
    IF d.neg THEN Zeros(BitseqT_BITS)
    ELSE IF Len(d.whole) > BitseqT_BITS THEN Ones(BitseqT_BITS)
    ELSE d.whole

DecimalAsI128(d) ==
    IF ~d.neg
    THEN IF d.whole[1] = 1 THEN << 0 >> \o Ones(BitseqT_BITS - 1) ELSE d.whole
    ELSE IF d.whole[1] = 1 THEN << 1 >> \o Zeros(BitseqT_BITS - 1)
    ELSE Negate(d.whole)

\* Bitseq::new: panics on a len of 128 or more, takes any value.
BitseqNew(value, len) ==
    IF len >= BitseqT_BITS
    THEN [panic |-> TRUE, msg |-> "Length of Bitseq can be 128 bits at most"]
    ELSE [panic |-> FALSE, bitseq |-> [value |-> value, len |-> len]]

\* Bitseq::from_str on a string of any length: BitseqFromStr with the value
\* kept as a word.
BitseqFromStrWord(s) ==
    IF Len(s) < 1 \/ Len(s) > BitseqT_BITS \/ \E k \in 1..Len(s) : s[k] \notin {"0", "1"}
    THEN None
    ELSE Some([value |-> Word([k \in 1..Len(s) |-> IF s[k] = "1" THEN 1 ELSE 0]),
               len |-> Len(s)])

\* impl From<BitseqT> for Bitseq
BitseqFrom(value) == [value |-> value, len |-> BitseqT_BITS - leading_zeros(value)]

\* impl TryFrom<Integer> for Bitseq, with the cast of a negative Integer in
\* place of its rejection.
BitseqFromIntegerCast(value) == ValueOk(BitseqFrom(value))

\* impl TryFrom<Integer> for Bitseq
BitseqTryFromInteger(value) ==
    IF IsNegative(value)
    THEN ValueErr("ConversionError", "Cannot convert negative Integer to Bitseq")
    ELSE IF U128TryFrom(value) = None
    THEN ValueErr("ConversionError", "Non-natural Integer cannot be converted to Bitseq")
    ELSE ValueOk(BitseqFrom(U128TryFrom(value)[1]))

\* impl TryFrom<Decimal> for Bitseq
BitseqTryFromDecimal(value) ==
    LET converted == DecimalAsU128(value)
    IN  IF U128AsDecimal(converted) = value THEN ValueOk(BitseqFrom(converted))
        ELSE ValueErr("ConversionError",
                      "Cannot convert Decimal to Bitseq that doesn't losslessly convert to Integer")

\* impl TryInto<Integer> for Bitseq
BitseqTryIntoInteger(b) ==
    IF I128TryFrom(b.value) = None
    THEN ValueErr("ConversionError", "Bitseq too wide to convert to Integer")
    ELSE ValueOk(I128TryFrom(b.value)[1])

\* impl TryInto<Decimal> for Bitseq
BitseqTryIntoDecimal(b) ==
    LET converted == U128AsDecimal(b.value)
    IN  IF DecimalAsU128(converted) = b.value THEN ValueOk(converted)
        ELSE ValueErr("ConversionError", "Bitseq too wide to convert to Decimal")

\* Value::try_mutate_into: the mutated Value, or the error and the Value as it
\* was.  The field a conversion leaves is set to 0, 0.0 or Bitseq::ZERO as in
\* the constructors.
try_mutate_into(v, into_type) ==
    IF into_type = v.type_ THEN ValueOk(v)
    ELSE IF v.type_ = "Bitseq" /\ into_type = "Integer"
    THEN LET r == BitseqTryIntoInteger(v.val_bitseq)
         IN  IF ~r.ok THEN r
             ELSE ValueOk([v EXCEPT !.val_integer = r.value, !.val_bitseq = BitseqZERO,
                                    !.type_ = into_type])
    ELSE IF v.type_ = "Bitseq" /\ into_type = "Decimal"
    THEN LET r == BitseqTryIntoDecimal(v.val_bitseq)
         IN  IF ~r.ok THEN r
             ELSE ValueOk([v EXCEPT !.val_decimal = r.value, !.val_bitseq = BitseqZERO,
                                    !.type_ = into_type])
    ELSE IF v.type_ = "Integer" /\ into_type = "Bitseq"
    THEN LET r == BitseqTryFromInteger(v.val_integer)
         IN  IF ~r.ok THEN r
             ELSE ValueOk([v EXCEPT !.val_bitseq = r.value, !.val_integer = 0,
                                    !.type_ = into_type])
    ELSE IF v.type_ = "Integer" /\ into_type = "Decimal"
    THEN LET converted == I128AsDecimal(v.val_integer)
         IN  IF DecimalAsI128(converted) = v.val_integer
             THEN ValueOk([v EXCEPT !.val_decimal = converted, !.val_integer = 0,
                                    !.type_ = into_type])
             ELSE ValueErr("ConversionError", "Integer too wide to convert to Decimal")
    ELSE IF v.type_ = "Decimal" /\ into_type = "Bitseq"
    THEN LET r == BitseqTryFromDecimal(v.val_decimal)
         IN  IF ~r.ok THEN r
             ELSE ValueOk([v EXCEPT !.val_bitseq = r.value, !.val_decimal = 0,
                                    !.type_ = into_type])
    ELSE IF v.type_ = "Decimal" /\ into_type = "Integer"
    THEN LET converted == DecimalAsI128(v.val_decimal)
         IN  IF I128AsDecimal(converted) = v.val_decimal
             THEN ValueOk([v EXCEPT !.val_integer = converted, !.val_decimal = 0,
                                    !.type_ = into_type])
             ELSE ValueErr("ConversionError",
                           "Decimal could not be losslessly converted to Integer")
    ELSE ValueErr("ConversionError", "No known conversion path")

\* ------------------------------------------------------------------------
\* core/environment.rs, core/evaluator.rs
\* ------------------------------------------------------------------------

Constant(name) == from_decimal([constant |-> name])

\* Evaluator::new: the default Environment and the two bindings it adds.
EvaluatorNew ==
    [k \in {<<"p", "i">>, <<"t", "a", "u">>, <<"e">>, <<"f", "o", "o">>, <<"D">>} |->
        CASE k = <<"p", "i">>      -> Constant("PI")
          [] k = <<"t", "a", "u">> -> Constant("TAU")
          [] k = <<"e">>           -> Constant("E")
          [] k = <<"f", "o", "o">> -> from_bitseq(BitseqZERO)
          [] OTHER                 -> from_bitseq([value |-> 1, len |-> 1])]

Range(f) == { f[k] : k \in DOMAIN f }

\* ValueStore::get
get(variables, identifier) ==
    IF identifier \in DOMAIN variables THEN Some(variables[identifier]) ELSE None

\* ValueStore::set
set(variables, identifier, value) ==
    [k \in DOMAIN variables \cup {identifier} |->
        IF k = identifier THEN value ELSE variables[k]]

\* A ValueStore: the map, the protected keys and, beside them, the readonly
\* keys that set_readonly marks.
ValueStore(map, protected_keys, readonly) ==
    [map |-> map, _protected_keys |-> protected_keys, readonly |-> readonly]

\* ValueStore::with_protected_keys
with_protected_keys(keys) == ValueStore(<< >>, keys, {})

\* ValueStore::set on the store: the binding is inserted and nothing is
\* returned.  What a call returns is modelled by its text: "()", "true",
\* "false".
store_set(vs, identifier, value) ==
    [vs |-> [vs EXCEPT !.map = set(vs.map, identifier, value)], returned |-> "()"]

\* ValueStore::set_readonly: as set where the key is not readonly, and the
\* key is then marked readonly; false and no change where it is.
set_readonly(vs, identifier, value) ==
    IF identifier \in vs.readonly
    THEN [vs |-> vs, returned |-> "false"]
    ELSE [vs |-> [vs EXCEPT !.map = set(vs.map, identifier, value),
                            !.readonly = vs.readonly \cup {identifier}],
          returned |-> "true"]

\* A mutant of clear: retains the bindings that are not protected.
ClearProtected(vs) ==
    [vs EXCEPT !.map = [k \in {j \in DOMAIN vs.map : j \notin Range(vs._protected_keys)}
                            |-> vs.map[k]]]

\* ValueStore::clear
clear(vs) ==
    [vs EXCEPT !.map = [k \in {j \in DOMAIN vs.map : j \in Range(vs._protected_keys)}
                            |-> vs.map[k]]]

\* ValueStore::clear_all
clear_all(vs) == [vs EXCEPT !.map = << >>, !._protected_keys = << >>]

\* impl Default for Environment
EnvironmentDefault ==
    LET vs0 == with_protected_keys(<< <<"p", "i">>, <<"t", "a", "u">>, <<"e">> >>)
        vs1 == set_readonly(vs0, <<"p", "i">>, Constant("PI")).vs
        vs2 == set_readonly(vs1, <<"t", "a", "u">>, Constant("TAU")).vs
    IN  set_readonly(vs2, <<"e">>, Constant("E")).vs

\* The children of a node are the nodes of its subtree.
children(node) == IF has_subtree(node) THEN node.subtree[1]._vec ELSE << >>

has_children(node) == Len(children(node)) > 0

set_children(node, vec) ==
    IF has_subtree(node) THEN [node EXCEPT !.subtree[1]._vec = vec] ELSE node

\* What an evaluation step returns: the node (or nodes) as it leaves them and
\* Ok, an error, or a panic that ends the program.
EvalOk(n) == [status |-> "Ok", node |-> n]

EvalErr(n, kind, msg, position) ==
    [status |-> "Err", node |-> n, err |-> [kind |-> kind, msg |-> msg, position |-> position]]

EvalPanic(n, msg) == [status |-> "Panic", node |-> n, msg |-> msg]

Propagate(n, r) ==
    IF r.ok THEN EvalOk([n EXCEPT !.value = Some(r.value)])
    ELSE IF r.kind = "todo" THEN EvalPanic(n, r.msg)
    ELSE EvalErr(n, r.kind, r.msg, n.token.position)

_evaluate_numeral(node) == Propagate(node, ValueFromStr(node.token.content))

_evaluate_variable(node, variables) ==
    LET v == get(variables, node.token.content)
    IN  IF v = None
        THEN EvalErr(node, "SyntaxError", "The variable is undefined", node.token.position)
        ELSE EvalOk([node EXCEPT !.value = v])

_evaluate_unary_operator(node) ==
    LET operand  == children(node)[1].value[1]
        operator == node.token.content
    IN  CASE operator = <<"+">> -> Propagate(node, ValueOk(unary_pos(operand)))
          [] operator = <<"-">> -> Propagate(node, ValueOk(unary_neg(operand)))
          [] operator = <<"!">> -> Propagate(node, factorial(operand))
          [] operator = <<"¬">> -> Propagate(node, ValueOk(logical_neg(operand)))
          [] operator = <<"~">> -> Propagate(node, bitwise_neg(operand))
          [] OTHER -> EvalErr(node, "SyntaxError", "The operator is undefined",
                              node.token.position)

\* Value::abs and Value::sin are not part of values.rs.
abs(v) ==
    IF v.type_ = "Integer" /\ v.val_integer < 0 THEN [v EXCEPT !.val_integer = 0 - v.val_integer]
    ELSE IF v.type_ = "Decimal" /\ "negated" \in DOMAIN v.val_decimal
    THEN [v EXCEPT !.val_decimal = v.val_decimal.negated]
    ELSE v

sin(v) == from_decimal([sin_of |-> v])

_evaluate_unary_function_call(node) ==
    LET operand == children(node)[1].value[1]
        func_identifier == node.token.content
    IN  CASE func_identifier = <<"a", "b", "s">> -> Propagate(node, ValueOk(abs(operand)))
          [] func_identifier = <<"n", "o", "t">> -> Propagate(node, ValueOk(logical_neg(operand)))
          [] func_identifier = <<"s", "i", "n">> -> Propagate(node, ValueOk(sin(operand)))
          [] OTHER -> EvalErr(node, "SyntaxError", "The function is undefined",
                              node.token.position)

\* todo!()
_evaluate_binary_operator(node) == EvalPanic(node, "not yet implemented")

_evaluate_binary_function_call(node) == EvalPanic(node, "not yet implemented")

RECURSIVE evaluate_node(_, _)
RECURSIVE EvaluateAll(_, _, _)

\* for node in nodes { evaluate_node(node)? }: the nodes from index k on, in
\* order, up to the first that does not return Ok.
\* A mutant of EvaluateAll: after a node failed the node to its right is
\* evaluated as well before the error is returned.
EvaluateAllPastError(vec, k, variables) ==
    IF k > Len(vec) THEN EvalOk(vec)
    ELSE LET r == evaluate_node(vec[k], variables)
             v == [vec EXCEPT ![k] = r.node]
         IN  IF r.status = "Ok" THEN EvaluateAll(v, k + 1, variables)
             ELSE IF k < Len(vec)
             THEN LET s == evaluate_node(v[k + 1], variables)
                  IN  [r EXCEPT !.node = [v EXCEPT ![k + 1] = s.node]]
             ELSE [r EXCEPT !.node = v]

EvaluateAll(vec, k, variables) ==
    IF k > Len(vec) THEN EvalOk(vec)
    ELSE LET r == evaluate_node(vec[k], variables)
             v == [vec EXCEPT ![k] = r.node]
         IN  IF r.status = "Ok" THEN EvaluateAll(v, k + 1, variables)
             ELSE [r EXCEPT !.node = v]

\* evaluate_node without its guard for nodes that have a value.
EvaluateNodeUnguarded(node, variables) ==
    IF is_terminal(node.token.type_)
    THEN IF is_numeral(node.token.type_) THEN _evaluate_numeral(node)
         ELSE _evaluate_variable(node, variables)
    ELSE
    LET sub == IF has_children(node) THEN EvaluateAll(children(node), 1, variables)
               ELSE EvalOk(children(node))
        n   == set_children(node, sub.node)
    IN  IF sub.status # "Ok" THEN [sub EXCEPT !.node = n]
        ELSE IF ~has_children(n)
        THEN EvalPanic(n, "Attempting to evaluate child-less non-terminal AstNode")
        ELSE IF is_unary(n.token.type_)
        THEN IF Len(children(n)) # 1
             THEN EvalPanic(n, "Attempting to evaluate unary operation that has not 1 child")
             ELSE IF is_operator(n.token.type_) THEN _evaluate_unary_operator(n)
             ELSE _evaluate_unary_function_call(n)
        ELSE IF Len(children(n)) # 2
             THEN EvalPanic(n, "Attempting to evaluate binary operation that has not 2 children")
             ELSE IF is_operator(n.token.type_) THEN _evaluate_binary_operator(n)
             ELSE _evaluate_binary_function_call(n)

evaluate_node(node, variables) ==
    IF node.value # None THEN EvalOk(node)
    ELSE IF is_terminal(node.token.type_)
    THEN IF is_numeral(node.token.type_) THEN _evaluate_numeral(node)
         ELSE _evaluate_variable(node, variables)
    ELSE
    LET sub == IF has_children(node) THEN EvaluateAll(children(node), 1, variables)
               ELSE EvalOk(children(node))
        n   == set_children(node, sub.node)
    IN  IF sub.status # "Ok" THEN [sub EXCEPT !.node = n]
        ELSE IF ~has_children(n)
        THEN EvalPanic(n, "Attempting to evaluate child-less non-terminal AstNode")
        ELSE IF is_unary(n.token.type_)
        THEN IF Len(children(n)) # 1
             THEN EvalPanic(n, "Attempting to evaluate unary operation that has not 1 child")
             ELSE IF is_operator(n.token.type_) THEN _evaluate_unary_operator(n)
             ELSE _evaluate_unary_function_call(n)
        ELSE IF Len(children(n)) # 2
             THEN EvalPanic(n, "Attempting to evaluate binary operation that has not 2 children")
             ELSE IF is_operator(n.token.type_) THEN _evaluate_binary_operator(n)
             ELSE _evaluate_binary_function_call(n)

\* Evaluator::evaluate
EvaluateAst(ast, variables) ==
    LET r == EvaluateAll(ast._vec, 1, variables)
    IN  [r EXCEPT !.node = [ast EXCEPT !._vec = r.node]]

\* ------------------------------------------------------------------------
\* Inputs
\* ------------------------------------------------------------------------

\* Characters of the free-form inputs: a digit, a letter that is both an
\* identifier character and a numeral-internal character, the ambiguous
\* operator, a binary operator, the postfix and a prefix unary operator,
\* the parentheses and a blank.
Alphabet == {"2", "x", "+", "*", "!", "~", "(", ")", " "}

RECURSIVE TextsOfLen(_)
TextsOfLen(n) ==
    IF n = 0 THEN { << >> }
    ELSE { Append(t, c) : t \in TextsOfLen(n - 1), c \in Alphabet }

ShortInputs == UNION { TextsOfLen(n) : n \in 0..MaxLen }

\* `2 p x q 3` for every pair of binary operators.
TierInputs == { <<"2">> \o p \o <<"x">> \o q \o <<"3">> : p, q \in BINARY_OPERATORS }

\* The builtin function names, alone and between operands.
BuiltinNames == BUILTIN_UNARY_FUNCTIONS \cup BUILTIN_BINARY_FUNCTIONS

NameInputs ==
    BuiltinNames \cup { <<"2", " ">> \o f \o <<" ", "3">> : f \in BuiltinNames }

\* A parenthesised group around each text shorter than MaxLen.
GroupInputs ==
    { <<"(">> \o t \o <<")">> : t \in UNION { TextsOfLen(n) : n \in 0..(MaxLen - 1) } }

\* Prefix operators and functions, operands and factorials, put together to
\* unary terms; a group around each term, and around `2 p term` and
\* `term p 2` for every binary operator p.
Prefixes ==
    {<< >>, <<"~">>, <<"-">>, <<"¬">>, <<"-", " ", "+">>, <<"~", " ", "-">>,
     <<"s", "i", "n", " ">>, <<"-", "s", "i", "n", " ">>}

Operands == {<<"x">>, <<"(", "2", ")">>}

Postfixes == {<< >>, <<"!">>, <<"!", " ", "!">>}

UnaryTerms == { u \o v \o f : u \in Prefixes, v \in Operands, f \in Postfixes }

PairedTerms == {<<"-", "x">>, <<"~", "x", "!">>, <<"-", " ", "+", "x", "!", " ", "!">>}

UnaryInputs ==
    { <<"(">> \o t \o <<")">> : t \in UnaryTerms }
        \cup { <<"(", "2", " ">> \o p \o <<" ">> \o t \o <<")">> :
                   p \in BINARY_OPERATORS, t \in PairedTerms }
        \cup { <<"(">> \o t \o <<" ">> \o p \o <<" ", "2", ")">> :
                   p \in BINARY_OPERATORS, t \in PairedTerms }

Inputs == ShortInputs \cup TierInputs \cup NameInputs \cup GroupInputs \cup UnaryInputs

\* The inputs of at most n characters.
InputsUpTo(n) ==
    UNION { TextsOfLen(k) : k \in 0..(IF n < MaxLen THEN n ELSE MaxLen) }
        \cup { t \in BuiltinNames : Len(t) <= n }

\* The inputs given to a Parser whose Ast is tree and that was given n
\* characters since it was last empty.
InputsFor(tree, n) ==
    IF tree = AstNew THEN Inputs
    ELSE IF n > MaxStale THEN { }
    ELSE InputsUpTo(MaxStale - n)

Lines == {1}

\* The start columns: a text shorter than MaxLen is given at column 2 as well.
ColumnsFor(input) == IF Len(input) < MaxLen THEN {0, 2} ELSE {0}

\* The names and the values the caller binds.
Identifiers == {<<"x">>, <<"X">>}

ValuesFor(identifier) ==
    IF identifier = <<"x">> THEN {from_integer(2), from_integer(3)}
    ELSE {from_integer(3)}

\* str::to_lowercase on the letters of the model.
to_lowercase(s) ==
    [k \in DOMAIN s |-> IF s[k] = "X" THEN "x" ELSE IF s[k] = "D" THEN "d" ELSE s[k]]

\* The nodes of a tree, at every depth.
RECURSIVE NodesOf(_)
NodesOf(ast) ==
    UNION { {n} \cup (IF has_subtree(n) THEN NodesOf(n.subtree[1]) ELSE { }) :
            n \in Range(ast._vec) }

\* ------------------------------------------------------------------------
\* State machine: one Parser object and its caller
\* ------------------------------------------------------------------------

VARIABLES
    parser,   \* Parser.ast
    call,     \* the parse call the caller has made: its arguments and
              \* Parser.ast as it was before the call
    result,   \* the Result<Ast, SyntaxError> the caller holds
    variables,\* Evaluator.environment.variables
    outcome,  \* what Evaluator::evaluate last returned for the tree the caller
              \* holds, the number of evaluate calls made on that tree and the
              \* bindings at the last of them
    given,    \* characters given to the Parser since Parser.ast was last empty
    held,     \* the Value the caller has constructed, how, and the conversions
              \* it has applied to it
    environment, \* the variables of an Environment the caller holds, and the last
              \* call made on them: its arguments, the store before it and
              \* what it returned
    built     \* an Ast the caller builds node by node, and the last call made
              \* on it

vars == << parser, call, result, variables, outcome, given, held, environment, built >>

NoCall == [made |-> FALSE]

NoResult == [kind |-> "None"]

NoOutcome == [status |-> "None"]

Calls(o) == IF o = NoOutcome THEN 0 ELSE o.calls

NoValue == [kind |-> "None"]

Init ==
    /\ parser = AstNew
    /\ call = NoCall
    /\ result = NoResult
    /\ variables = EvaluatorNew
    /\ outcome = NoOutcome
    /\ given = 0
    /\ held = NoValue
    /\ environment = [vs |-> EnvironmentDefault, from |-> "default", wiped |-> FALSE,
                      op |-> NoCall]
    /\ built = [ast |-> AstNew, op |-> NoCall]

\* Parser::parse: on success the tree is taken out of the Parser, which is
\* left with a new empty Ast; on failure the error is returned and Parser.ast
\* keeps the tree as the failing pass left it.
parse(input, line, chr) ==
    /\ LET r == _parse_recursively(input, line, chr, parser)
       IN  /\ call' = [made |-> TRUE, input |-> input, line |-> line, chr |-> chr,
                       before |-> parser]
           /\ IF IsOk(r)
              THEN /\ result' = [kind |-> "Ok", ast |-> r.tree]
                   /\ parser' = AstNew
                   /\ given' = 0
              ELSE /\ result' = [kind |-> "Err", err |-> r.err[1]]
                   /\ parser' = r.tree
                   /\ given' = IF r.tree = AstNew THEN 0 ELSE given + Len(input)
    /\ UNCHANGED << variables, outcome, held, environment, built >>

\* Parser::reset
reset ==
    /\ result = NoResult
    /\ parser # AstNew
    /\ parser' = AstNew
    /\ given' = 0
    /\ UNCHANGED << call, result, variables, outcome, held, environment, built >>

\* The caller is done with the Result it holds and drops it.
drop_result ==
    /\ result # NoResult
    /\ outcome.status # "Panic"
    /\ result' = NoResult
    /\ call' = NoCall
    /\ outcome' = NoOutcome
    /\ UNCHANGED << parser, variables, given, held, environment, built >>

\* Evaluator::evaluate on the tree a successful parse returned.  A panic
\* ends the program: nothing is evaluated after it.
evaluate ==
    /\ result.kind = "Ok"
    /\ outcome.status # "Panic"
    /\ Calls(outcome) < MaxEvals
    /\ LET r == EvaluateAst(result.ast, variables)
           o == CASE r.status = "Ok"  -> [status |-> "Ok"]
                  [] r.status = "Err" -> [status |-> "Err", err |-> r.err]
                  [] OTHER            -> [status |-> "Panic", msg |-> r.msg]
       IN  /\ result' = [result EXCEPT !.ast = r.node]
           /\ outcome' = o @@ [calls |-> Calls(outcome) + 1, store |-> variables]
    /\ UNCHANGED << parser, call, variables, given, held, environment, built >>

\* The caller calls parse when it holds no Result.
call_parse ==
    /\ result = NoResult
    /\ \E input \in InputsFor(parser, given), line \in Lines :
           \E chr \in ColumnsFor(input) : parse(input, line, chr)

\* The caller of this machine evaluates the tree it holds once.
evaluate_once ==
    /\ Calls(outcome) = 0
    /\ evaluate

Next ==
    \/ call_parse
    \/ reset
    \/ drop_result
    \/ evaluate_once

Spec == Init /\ [][Next]_vars

\* ------------------------------------------------------------------------
\* State machine: one Parser, one Evaluator and a caller that evaluates
\* ------------------------------------------------------------------------

\* Widest `0b` literal of the evaluation scenarios, in digits.
MaxBits == 3

RECURSIVE BitTextsOfLen(_)
BitTextsOfLen(n) ==
    IF n = 0 THEN { << >> }
    ELSE { Append(t, c) : t \in BitTextsOfLen(n - 1), c \in {"0", "1"} }

BitLiterals == { <<"0", "b">> \o t : t \in UNION { BitTextsOfLen(n) : n \in 1..MaxBits } }

\* Numerals in the spellings of the radix prefix and of the fractional
\* separator.
NumeralInputs ==
    { <<"0", "B", "1", "0", "1">>, <<"0", "b", "_", "0", "1">>, <<"0", "b", "1", "_", "1">>,
      <<"0", "x", "2">>, <<"0", "X", "2">>, <<"0", "o", "2">>, <<"0", "O", "2">>,
      <<"0", "d", "2">>, <<"0", "D", "2">>, <<"2", ".", "2">>, <<"2", ",", "2">>,
      <<"0", "b", "1", ".", "1">>, <<"0", "B", "1", ",", "1">>, <<"0", "x", "2", ",", "2">> }

\* The texts of at most 2 characters and the texts of the evaluation
\* scenarios: variables, negations, factorials, every `0b` literal alone,
\* under `~` and under `~ ~`, and the numerals.
EvalInputs ==
    UNION { TextsOfLen(n) : n \in 0..2 }
        \cup { <<"-", "x", "!">>, <<"2", "+", "3">>, <<"!", "x">>, <<"X">>,
               <<"-", "2">>, <<"!", "-", "2">>, <<"~", "D">>, <<"~", "f", "o", "o">>,
               <<"x", "+", "2">> }
        \cup { <<"0", "!">>, <<"1", "!">>, <<"5", "!">>, <<"1", "2", "!">>,
               <<"3", "4", "!">>, <<"1", "0", "0", "!">> }
        \cup BitLiterals
        \cup { <<"~">> \o t : t \in BitLiterals }
        \cup { <<"~", " ", "~">> \o t : t \in BitLiterals }
        \cup NumeralInputs

\* The caller calls parse, on a Parser that holds no nodes, when it holds no
\* Result.
call_parse_eval ==
    /\ result = NoResult
    /\ parser = AstNew
    /\ \E input \in EvalInputs, line \in Lines :
           \E chr \in ColumnsFor(input) : parse(input, line, chr)

\* environment.variables.set
call_set ==
    /\ outcome.status # "Panic"
    /\ \E identifier \in Identifiers :
           \E value \in ValuesFor(identifier) :
               /\ get(variables, identifier) # Some(value)
               /\ variables' = set(variables, identifier, value)
    /\ UNCHANGED << parser, call, result, outcome, given, held, environment, built >>

NextEval ==
    \/ call_parse_eval
    \/ reset
    \/ drop_result
    \/ evaluate
    \/ call_set

EvalSpec == Init /\ [][NextEval]_vars

\* ------------------------------------------------------------------------
\* State machine: a caller that constructs a Value and converts it
\* ------------------------------------------------------------------------

\* Most conversions applied to one Value.
MaxSteps == 2

\* Integers: 0, 1, 5, 2^126, 2^126 + 1, 2^127 - 1, -1, -5 and -2^127.
IntegerInputs ==
    { Word(<< >>), Word(<<1>>), Word(<<1, 0, 1>>), Word(<<1>> \o Zeros(BitseqT_BITS - 2)),
      Word(<<1>> \o Zeros(BitseqT_BITS - 3) \o <<1>>),
      Word(Ones(BitseqT_BITS - 1)), Ones(BitseqT_BITS), Negate(Word(<<1, 0, 1>>)),
      <<1>> \o Zeros(BitseqT_BITS - 1) }

\* u128 values: 0, 1, 2, 5, 2^127 - 1, 2^127 and 2^128 - 1.
WordInputs ==
    { Word(<< >>), Word(<<1>>), Word(<<1, 0>>), Word(<<1, 0, 1>>),
      Word(Ones(BitseqT_BITS - 1)), <<1>> \o Zeros(BitseqT_BITS - 1), Ones(BitseqT_BITS) }

LenInputs == {0, 1, 3, BitseqT_BITS - 1, BitseqT_BITS}

\* Strings: empty, short, with a leading zero, with a digit that is not
\* binary, and of 127, 128 and 129 digits.
BitStrings ==
    { << >>, <<"0">>, <<"1">>, <<"0", "1">>, <<"1", "0", "1">>, <<"0", "0", "1", "0">>,
      <<"1", "2">> }
        \cup { [k \in 1..n |-> "1"] : n \in (BitseqT_BITS - 1)..(BitseqT_BITS + 1) }
        \cup { [k \in 1..n |-> "0"] : n \in (BitseqT_BITS - 1)..(BitseqT_BITS + 1) }

\* Decimals: 0.0, 5.0, 1.5, -1.0 and 2^127.
DecimalInputs ==
    { Dec(FALSE, Word(<< >>), FALSE), Dec(FALSE, Word(<<1, 0, 1>>), FALSE),
      Dec(FALSE, Word(<<1>>), TRUE), Dec(TRUE, Word(<<1>>), FALSE),
      Dec(FALSE, <<1>> \o Zeros(BitseqT_BITS - 1), FALSE) }

ValueTypes == {"Bitseq", "Decimal", "Integer"}

\* The Value the caller holds, and the Value as it was before the last
\* conversion.
Held(origin, value) ==
    [kind |-> "Value", origin |-> origin, path |-> << >>, value |-> value, before |-> value]

\* Value::from_integer
call_from_integer ==
    /\ held = NoValue
    /\ \E i \in IntegerInputs :
           held' = Held([by |-> "from_integer", i |-> i], from_integer(i))
    /\ UNCHANGED << parser, call, result, variables, outcome, given, environment, built >>

\* Value::from_decimal
call_from_decimal ==
    /\ held = NoValue
    /\ \E d \in DecimalInputs :
           held' = Held([by |-> "from_decimal", d |-> d], from_decimal(d))
    /\ UNCHANGED << parser, call, result, variables, outcome, given, environment, built >>

\* Value::from(Bitseq::new(value, len))
call_new ==
    /\ held = NoValue
    /\ \E value \in WordInputs, len \in LenInputs :
           LET origin == [by |-> "new", value |-> value, len |-> len]
               r      == BitseqNew(value, len)
           IN  held' = IF r.panic THEN [kind |-> "Panic", origin |-> origin, msg |-> r.msg]
                       ELSE Held(origin, from_bitseq(r.bitseq))
    /\ UNCHANGED << parser, call, result, variables, outcome, given, environment, built >>

\* Bitseq::from_str(s), and Value::from on what it returns
call_from_str ==
    /\ held = NoValue
    /\ \E s \in BitStrings :
           LET origin == [by |-> "from_str", s |-> s]
               r      == BitseqFromStrWord(s)
           IN  held' = IF r = None THEN [kind |-> "Rejected", origin |-> origin]
                       ELSE Held(origin, from_bitseq(r[1]))
    /\ UNCHANGED << parser, call, result, variables, outcome, given, environment, built >>

\* Value::from(Bitseq::from(value))
call_from ==
    /\ held = NoValue
    /\ \E value \in WordInputs :
           held' = Held([by |-> "from", value |-> value], from_bitseq(BitseqFrom(value)))
    /\ UNCHANGED << parser, call, result, variables, outcome, given, environment, built >>

\* Value::try_mutate_into.  On an error the Value is as it was.
call_try_mutate_into ==
    /\ held.kind = "Value"
    /\ Len(held.path) < MaxSteps
    /\ \E into_type \in ValueTypes :
           /\ LET r == try_mutate_into(held.value, into_type)
              IN  held' = IF r.ok
                          THEN [held EXCEPT !.value = r.value,
                                            !.before = held.value,
                                            !.path = Append(@, into_type)]
                          ELSE [kind |-> "Err", origin |-> held.origin,
                                path |-> Append(held.path, into_type),
                                value |-> held.value, before |-> held.value,
                                err |-> [kind |-> r.kind, msg |-> r.msg]]
    /\ UNCHANGED << parser, call, result, variables, outcome, given, environment, built >>

\* The caller drops the Value it holds.
drop_value ==
    /\ held.kind \notin {"None", "Panic"}
    /\ held' = NoValue
    /\ UNCHANGED << parser, call, result, variables, outcome, given, environment, built >>

NextConv ==
    \/ call_from_integer
    \/ call_from_decimal
    \/ call_new
    \/ call_from_str
    \/ call_from
    \/ call_try_mutate_into
    \/ drop_value

ConvSpec == Init /\ [][NextConv]_vars

\* ------------------------------------------------------------------------
\* State machine: a caller that holds the variables of an Environment
\* ------------------------------------------------------------------------

Pi == <<"p", "i">>

\* The identifiers the caller writes to, and the values it writes.
StoreKeys == {Pi, <<"x">>}

StoreValues == {from_integer(2), from_integer(3)}

\* The key lists the caller constructs a ValueStore with.
ProtectedKeyLists == {<< >>, << <<"x">> >>}

\* What the caller remembers of a store: how it was constructed, whether
\* clear_all was called on it, and the last call.
Kept(vs, from, wiped, op) == [vs |-> vs, from |-> from, wiped |-> wiped, op |-> op]

StoreCall(name, identifier, value, returned) ==
    [made |-> TRUE, name |-> name, identifier |-> identifier, value |-> value,
     before |-> environment.vs, returned |-> returned]

\* Environment::default()
call_default ==
    /\ environment.op # NoCall
    /\ environment' = Kept(EnvironmentDefault, "default", FALSE, NoCall)
    /\ UNCHANGED << parser, call, result, variables, outcome, given, held, built >>

\* ValueStore::with_protected_keys(keys)
call_with_protected_keys ==
    /\ \E keys \in ProtectedKeyLists :
           environment' = Kept(with_protected_keys(keys), "with_protected_keys", FALSE, NoCall)
    /\ UNCHANGED << parser, call, result, variables, outcome, given, held, built >>

\* variables.set(identifier, value)
call_store_set ==
    /\ \E identifier \in StoreKeys, value \in StoreValues :
           LET r == store_set(environment.vs, identifier, value)
           IN  environment' = [environment EXCEPT
                   !.vs = r.vs,
                   !.op = StoreCall("set", identifier, value, r.returned)]
    /\ UNCHANGED << parser, call, result, variables, outcome, given, held, built >>

\* variables.set_readonly(identifier, value)
call_set_readonly ==
    /\ \E identifier \in StoreKeys, value \in StoreValues :
           LET r == set_readonly(environment.vs, identifier, value)
           IN  environment' = [environment EXCEPT
                   !.vs = r.vs,
                   !.op = StoreCall("set_readonly", identifier, value, r.returned)]
    /\ UNCHANGED << parser, call, result, variables, outcome, given, held, built >>

\* variables.clear()
call_clear ==
    /\ environment' = [environment EXCEPT
           !.vs = clear(environment.vs),
           !.op = StoreCall("clear", << >>, NoValue, "()")]
    /\ UNCHANGED << parser, call, result, variables, outcome, given, held, built >>

\* variables.clear_all()
call_clear_all ==
    /\ environment' = [environment EXCEPT
           !.vs = clear_all(environment.vs),
           !.wiped = TRUE,
           !.op = StoreCall("clear_all", << >>, NoValue, "()")]
    /\ UNCHANGED << parser, call, result, variables, outcome, given, held, built >>

NextStore ==
    \/ call_default
    \/ call_with_protected_keys
    \/ call_store_set
    \/ call_set_readonly
    \/ call_clear
    \/ call_clear_all

StoreSpec == Init /\ [][NextStore]_vars

\* ------------------------------------------------------------------------
\* State machine: a caller that builds an Ast node by node
\* ------------------------------------------------------------------------

\* Most nodes in the tree the caller builds, at all depths.
MaxNodes == 4

RECURSIVE Size(_)
RECURSIVE SizeFrom(_, _)
SizeFrom(vec, k) ==
    IF k > Len(vec) THEN 0
    ELSE 1 + (IF has_subtree(vec[k]) THEN Size(vec[k].subtree[1]) ELSE 0) + SizeFrom(vec, k + 1)

Size(ast) == SizeFrom(ast._vec, 1)

\* The tokens, subtrees and nodes the caller has at hand.  A subtree was
\* built earlier and releveled by its builder.
LeafToken == Token("VariableIdentifier", <<"x">>, Position(1, 0))

OperatorToken == Token("UnaryOperator", <<"-">>, Position(1, 0))

GivenSubtrees ==
    { relevel_from(a, l) :
        a \in { AstFromNode(new_from_token(LeafToken)),
                AstFromNode(new_with_subtree(OperatorToken,
                                             AstFromNode(new_from_token(LeafToken)))) },
        l \in {0, 1} }

GivenNodes ==
    { new_from_token(LeafToken) }
        \cup { new_with_subtree(OperatorToken, sub) : sub \in GivenSubtrees }

\* The call, and the index of the first node it attached.
AstCall(name, first) == [made |-> TRUE, name |-> name, first |-> first]

\* tree.push(node)
call_push ==
    /\ \E node \in GivenNodes :
           /\ Size(push(built.ast, node)) <= MaxNodes
           /\ built' = [ast |-> push(built.ast, node),
                        op  |-> AstCall("push", Len(built.ast._vec) + 1)]
    /\ UNCHANGED << parser, call, result, variables, outcome, given, held, environment >>

\* tree.push_subtree(token, subtree)
call_push_subtree ==
    /\ \E subtree \in GivenSubtrees :
           /\ Size(push_subtree(built.ast, OperatorToken, subtree)) <= MaxNodes
           /\ built' = [ast |-> push_subtree(built.ast, OperatorToken, subtree),
                        op  |-> AstCall("push_subtree", Len(built.ast._vec) + 1)]
    /\ UNCHANGED << parser, call, result, variables, outcome, given, held, environment >>

\* Ast::from(node): the tree the caller holds becomes the subtree of a node,
\* and a new tree is built from that node.
call_from_node ==
    /\ built.ast._vec # << >>
    /\ Size(built.ast) < MaxNodes
    /\ built' = [ast |-> AstFromNode(new_with_subtree(OperatorToken, built.ast)),
                 op  |-> AstCall("from_node", 1)]
    /\ UNCHANGED << parser, call, result, variables, outcome, given, held, environment >>

\* Ast::from(vec): a new tree is built from the nodes of the tree the caller
\* holds.
call_from_vec ==
    /\ built.ast._vec # << >>
    /\ built' = [ast |-> AstFromVec(built.ast._vec), op |-> AstCall("from_vec", 1)]
    /\ UNCHANGED << parser, call, result, variables, outcome, given, held, environment >>

\* tree.relevel_from(base_level)
call_relevel_from ==
    /\ \E base_level \in {0, 1, 2} :
           /\ base_level # built.ast._level
           /\ built' = [ast |-> relevel_from(built.ast, base_level),
                        op  |-> AstCall("relevel_from", Len(built.ast._vec) + 1)]
    /\ UNCHANGED << parser, call, result, variables, outcome, given, held, environment >>

\* The caller drops the tree and starts with a new one.
drop_tree ==
    /\ built.ast # AstNew
    /\ built' = [ast |-> AstNew, op |-> NoCall]
    /\ UNCHANGED << parser, call, result, variables, outcome, given, held, environment >>

NextAst ==
    \/ call_push
    \/ call_push_subtree
    \/ call_from_node
    \/ call_from_vec
    \/ call_relevel_from
    \/ drop_tree

AstSpec == Init /\ [][NextAst]_vars

\* ------------------------------------------------------------------------
\* Properties
\* ------------------------------------------------------------------------

\* The parse call has returned and its tree has not been evaluated yet.
Returned == call.made /\ outcome = NoOutcome

\* What the same call returns on a newly created Parser.
OnNewParser == _parse_recursively(call.input, call.line, call.chr, AstNew)

\* C1: the result of every parse call depends only on the call's text, line
\* and column: it is the result a newly created Parser gives for them, also
\* when an earlier call on the same Parser returned a SyntaxError.
C1_ResultDependsOnArgumentsOnly ==
    Returned =>
        IF IsOk(OnNewParser)
        THEN result = [kind |-> "Ok", ast |-> OnNewParser.tree]
        ELSE result = [kind |-> "Err", err |-> OnNewParser.err[1]]

ArityOk(n) ==
    /\ is_unary(n.token.type_) => Len(children(n)) = 1
    /\ is_binary(n.token.type_) => Len(children(n)) = 2
    /\ is_terminal(n.token.type_) => Len(children(n)) = 0

\* C2: in every tree a successful parse returns, at every depth, a unary node
\* has exactly 1 child, a binary node exactly 2 and a terminal node none.
C2_ArityInvariant ==
    result.kind = "Ok" => \A n \in NodesOf(result.ast) : ArityOk(n)

ConsistencyPanics ==
    {"Attempting to evaluate child-less non-terminal AstNode",
     "Attempting to evaluate unary operation that has not 1 child",
     "Attempting to evaluate binary operation that has not 2 children"}

\* C3: evaluating a tree that a successful parse returned never ends in one
\* of the internal-consistency panics (a child-less non-terminal node, a
\* unary node without exactly 1 child, a binary node without exactly 2).
C3_NoConsistencyPanic ==
    outcome.status = "Panic" => outcome.msg \notin ConsistencyPanics

\* The token sequences of a call, one per level, as tokenized: the level the
\* input is pushed to and, below it, the content of every parenthesised group.
RECURSIVE LevelsOf(_, _, _, _)
LevelsOf(input, line, chr, tree) ==
    LET r0 == tokenize(input, line, chr, tree)
    IN  IF ~IsOk(r0) THEN { }
        ELSE {r0.tree} \cup
             UNION { LevelsOf(n.token.content, line, n.token.position.chr + 1,
                              relevel_from(AstNew, r0.tree._level + 1)) :
                     n \in { m \in Range(r0.tree._vec) : m.token.type_ = "Expression" } }

Levels == IF call.made THEN LevelsOf(call.input, call.line, call.chr, call.before) ELSE { }

Level0 == { T \in Levels : T._level = 0 }

Nested == { T \in Levels : T._level > 0 }

\* A level after its groups are parsed, after disambiguation and after the
\* implicit multiplications are exposed (an error as soon as one pass fails).
Grouped(T) == ExpressionLoop(T, 1, call.line)

Disambiguated(T) ==
    IF IsOk(Grouped(T)) THEN disambiguate_operators(Grouped(T).tree) ELSE Grouped(T)

Multiplied(T) ==
    IF IsOk(Disambiguated(T)) THEN expose_implicit_multiplications(Disambiguated(T).tree)
    ELSE Disambiguated(T)

IsPostfix(tok) == tok.type_ = "UnaryOperator" /\ tok.content = <<"!">>

IsPrefix(tok) == tok.type_ = "UnaryOperator" /\ tok.content # <<"!">>

\* A node that is the call `(mem 0)`, synthesized.
IsMem0(n) ==
    /\ n.token.type_ = "Expression" /\ n.token.implicit
    /\ Len(children(n)) = 1
    /\ LET f == children(n)[1]
       IN  /\ f.token.type_ = "UnaryFunctionIdentifier" /\ f.token.content = <<"m", "e", "m">>
           /\ Len(children(f)) = 1
           /\ children(f)[1].token.type_ = "Integer"
           /\ children(f)[1].token.content = <<"0">>
           /\ children(children(f)[1]) = << >>

LeadsBinary(vec) ==
    vec # << >> /\ vec[1].token.type_ \in {"BinaryOperator", "BinaryFunctionIdentifier"}

\* At level 0 the call is prepended exactly when the sequence leads with a
\* binary operator or function; below level 0 nothing is prepended.
Mem0Prepended(T) ==
    IsOk(Multiplied(T)) =>
        LET pre == Multiplied(T).tree
            r   == expose_implicit_mem0_call(pre)
        IN  /\ IsOk(r)
            /\ IF T._level = 0 /\ LeadsBinary(pre._vec)
               THEN /\ Len(r.tree._vec) = Len(pre._vec) + 1
                    /\ IsMem0(r.tree._vec[1])
                    /\ SubSeq(r.tree._vec, 2, Len(r.tree._vec)) = pre._vec
               ELSE r.tree._vec = pre._vec

\* The scenario `* 3`, `- 3`: a sequence of a binary operator and an Integer
\* parses to the operator with the call as left and the Integer as right child.
Mem0Scenario(T) ==
    (/\ Returned
     /\ Len(T._vec) = 2
     /\ T._vec[1].token.type_ \in {"BinaryOperator", "AmbiguousOperator"}
     /\ ~has_subtree(T._vec[1])
     /\ T._vec[2].token.type_ = "Integer")
    => /\ result.kind = "Ok"
       /\ Len(result.ast._vec) = 1
       /\ LET n == result.ast._vec[1]
          IN  /\ n.token = [T._vec[1].token EXCEPT !.type_ = "BinaryOperator"]
              /\ Len(children(n)) = 2
              /\ IsMem0(children(n)[1])
              /\ children(n)[2] = T._vec[2]

\* Inside parentheses a leading binary operator makes the parse fail.
NestedLeadingBinaryFails(T) ==
    (Returned /\ T._vec # << >> /\ T._vec[1].token.type_ = "BinaryOperator")
    => result.kind = "Err"

\* C8: at level 0 only, a sequence whose first token is, after
\* disambiguation, a binary operator or binary function gets a synthesized
\* `(mem 0)` prepended, so `* 3` and `- 3` parse to a binary node over that
\* call and Integer 3; inside parentheses nothing is prepended and a leading
\* binary operator makes the parse fail.
C8_ImplicitPreviousResult ==
    /\ \A T \in Levels : Mem0Prepended(T)
    /\ \A T \in Level0 : Mem0Scenario(T)
    /\ \A T \in Nested : NestedLeadingBinaryFails(T)

\* The operators of a level's sequence that have no operand on a side where
\* they need one (tokens as written: a node that already has children is an
\* operation, not an operator waiting for operands).
MissingOperand(T) ==
    LET S == T._vec
        first == S[1]
        last == S[Len(S)]
    IN  IF S = << >> THEN { }
        ELSE { n \in {first} : ~has_subtree(n) /\ IsPostfix(n.token) }
             \cup { n \in {first} : /\ ~has_subtree(n) /\ T._level > 0
                                    /\ n.token.type_ = "BinaryOperator" }
             \cup { n \in {last} : /\ ~has_subtree(n)
                                   /\ \/ IsPrefix(n.token)
                                      \/ n.token.type_ \in {"UnaryFunctionIdentifier",
                                                            "BinaryOperator",
                                                            "AmbiguousOperator"} }

\* C9: whenever in some level's sequence a postfix `!` is the first token, a
\* prefix unary operator or unary function is the last token, or a binary
\* operator is the first token (inside parentheses) or the last token, parse
\* returns a SyntaxError and no Ast.
C9_MissingOperandRejected ==
    Returned => \A T \in Levels : MissingOperand(T) # { } => result.kind = "Err"

\* C10: tokenizing a builtin function name yields exactly one token, whose
\* content is the whole name and whose kind is UnaryFunctionIdentifier for
\* the names of the unary set and BinaryFunctionIdentifier for those of the
\* binary set.
C10_BuiltinNameIsOneToken ==
    (call.made /\ call.input \in BUILTIN_UNARY_FUNCTIONS \cup BUILTIN_BINARY_FUNCTIONS)
    => LET r == tokenize(call.input, call.line, call.chr, call.before)
           k == Len(call.before._vec) + 1
       IN  /\ IsOk(r)
           /\ Len(r.tree._vec) = k
           /\ r.tree._vec[k].token.content = call.input
           /\ r.tree._vec[k].token.type_ =
                  IF call.input \in BUILTIN_UNARY_FUNCTIONS
                  THEN "UnaryFunctionIdentifier" ELSE "BinaryFunctionIdentifier"

\* The precedence tiers as the specification lists them, tightest first.
ListedTiers ==
    << {<<"^">>},
       {<<"*">>, <<"/">>, <<"%">>},
       {<<"+">>, <<"-">>},
       {<<"<", "<">>, <<">", ">">>, <<"<", "<", "<">>, <<">", ">", ">">>},
       {<<"&">>},
       {<<"|">>},
       {<<"^", "|">>},
       {<<">">>, <<"<">>, <<"<", "=">>, <<">", "=">>, <<"!", "=">>, <<"=", "=">>,
        <<"<", "=", ">">>, <<"?", "?">>, <<"!", "?">>},
       {<<"&", "&">>, <<"|", "|">>},
       {<<":", "=">>} >>

TierOf(content) == CHOOSE t \in DOMAIN ListedTiers : content \in ListedTiers[t]

IsValueToken(n) == is_terminal(n.token.type_) /\ ~has_subtree(n)

IsBinaryToken(n) ==
    /\ ~has_subtree(n)
    /\ n.token.type_ \in {"BinaryOperator", "AmbiguousOperator"}
    /\ \E t \in DOMAIN ListedTiers : n.token.content \in ListedTiers[t]

\* A level-0 sequence of the form a p b q c.
IsChain(T) ==
    /\ T._level = 0
    /\ Len(T._vec) = 5
    /\ IsValueToken(T._vec[1]) /\ IsValueToken(T._vec[3]) /\ IsValueToken(T._vec[5])
    /\ IsBinaryToken(T._vec[2]) /\ IsBinaryToken(T._vec[4])

\* The node op(left, right) in a sequence of the given level.
BinaryNode(op, left, right, level) ==
    [token   |-> [op.token EXCEPT !.type_ = "BinaryOperator"],
     subtree |-> << [_vec |-> << left, right >>, _level |-> level + 1] >>,
     value   |-> << >>]

\* p(a, q(b, c))
GroupedRight(T) ==
    [_vec |-> << BinaryNode(T._vec[2], T._vec[1],
                            BinaryNode(T._vec[4], T._vec[3], T._vec[5], 1), 0) >>,
     _level |-> 0]

\* q(p(a, b), c)
GroupedLeft(T) ==
    [_vec |-> << BinaryNode(T._vec[4],
                            BinaryNode(T._vec[2], T._vec[1], T._vec[3], 1),
                            T._vec[5], 0) >>,
     _level |-> 0]

SameTier(T) == TierOf(T._vec[2].token.content) = TierOf(T._vec[4].token.content)

\* C4: for values a, b, c and binary operators p, q of one precedence tier,
\* `a p b q c` parses to p(a, q(b, c)), the left operand as first child and
\* the right operand as second child.
C4_RightAssociativeWithinTier ==
    Returned =>
        \A T \in Level0 :
            (IsChain(T) /\ SameTier(T)) =>
                result = [kind |-> "Ok", ast |-> GroupedRight(T)]

C4_Witness ==
    /\ Returned /\ result.kind = "Ok"
    /\ \E T \in Level0 :
           /\ IsChain(T) /\ SameTier(T)
           /\ T._vec[2].token.content = <<"*">> /\ T._vec[4].token.content = <<"/">>
           /\ result.ast = GroupedRight(T)

\* C5: for values a, b, c and binary operators p, q of different tiers,
\* `a p b q c` parses to p(a, q(b, c)) when q's tier is tighter than p's and
\* to q(p(a, b), c) when p's tier is tighter, for every pair of tiers of the
\* listed precedence table.
C5_PrecedenceAcrossTiers ==
    Returned =>
        \A T \in Level0 :
            (IsChain(T) /\ ~SameTier(T)) =>
                IF TierOf(T._vec[4].token.content) < TierOf(T._vec[2].token.content)
                THEN result = [kind |-> "Ok", ast |-> GroupedRight(T)]
                ELSE result = [kind |-> "Ok", ast |-> GroupedLeft(T)]

C5_Witness ==
    /\ Returned /\ result.kind = "Ok"
    /\ \E T \in Level0 :
           /\ IsChain(T)
           /\ T._vec[2].token.content = <<"^">> /\ T._vec[4].token.content = <<":", "=">>
           /\ result.ast = GroupedLeft(T)

IsAmbiguous(n) == n.token.type_ = "AmbiguousOperator"

\* has_left_value and has_right_value of the i-th token of a sequence, by the
\* kinds of its neighbours.
HasLeftValue(T, i) ==
    IF i = 1 THEN T._level = 0
    ELSE LET t == T._vec[i - 1].token
         IN  is_terminal(t.type_) \/ t.type_ = "Expression" \/ IsPostfix(t)

HasRightValue(T, i) ==
    /\ i < Len(T._vec)
    /\ LET t == T._vec[i + 1].token
       IN  \/ is_terminal(t.type_) \/ t.type_ = "Expression"
           \/ t.type_ = "UnaryFunctionIdentifier"
           \/ IsPrefix(t)
           \/ t.type_ = "AmbiguousOperator"

Undecidable(T) == { i \in DOMAIN T._vec : IsAmbiguous(T._vec[i]) /\ ~HasRightValue(T, i) }

Least(S) == CHOOSE i \in S : \A j \in S : i <= j

\* The outcome r of the pass on the sequence T is the one the rules give (a
\* postfix `!` is no right value, so a token it follows is undecidable).
DisambiguatedByNeighbours(T, r) ==
    IF Undecidable(T) = { }
       THEN /\ IsOk(r)
            /\ r.tree._level = T._level
            /\ Len(r.tree._vec) = Len(T._vec)
            /\ \A i \in DOMAIN T._vec :
                   r.tree._vec[i] =
                       IF ~IsAmbiguous(T._vec[i]) THEN T._vec[i]
                       ELSE IF HasLeftValue(T, i)
                       THEN [T._vec[i] EXCEPT !.token.type_ = "BinaryOperator"]
                       ELSE [T._vec[i] EXCEPT !.token.type_ = "UnaryOperator"]
       ELSE /\ ~IsOk(r)
            /\ r.err[1].position = T._vec[Least(Undecidable(T))].token.position

\* C6: every `+`/`-` token becomes a BinaryOperator when it has a left and a
\* right value, a UnaryOperator when it has only a right value, and otherwise
\* (always when `!` follows it) parse fails with a SyntaxError at the token's
\* position; a tree that a successful parse returns holds no
\* AmbiguousOperator token at any depth.
C6_DisambiguationByNeighbours ==
    /\ \A T \in Levels :
           IsOk(Grouped(T)) =>
               DisambiguatedByNeighbours(Grouped(T).tree, Disambiguated(T))
    /\ Returned =>
           /\ \A T \in Level0 :
                  (IsOk(Grouped(T)) /\ Undecidable(T) # { }) =>
                      /\ result.kind = "Err"
                      /\ result.err.position =
                             T._vec[Least(Undecidable(T))].token.position
           /\ \A T \in Nested : Undecidable(T) # { } => result.kind = "Err"
           /\ result.kind = "Ok" => \A n \in NodesOf(result.ast) : ~IsAmbiguous(n)

\* `+ +2`: the first `+` has become binary, the second unary.
C6_Witness ==
    /\ Returned /\ result.kind = "Ok"
    /\ \E T \in Level0 :
           /\ Len(T._vec) = 3
           /\ IsAmbiguous(T._vec[1]) /\ IsAmbiguous(T._vec[2])
           /\ Disambiguated(T).tree._vec[1].token.type_ = "BinaryOperator"
           /\ Disambiguated(T).tree._vec[2].token.type_ = "UnaryOperator"
    /\ \E n \in NodesOf(result.ast) :
           n.token.type_ = "UnaryOperator" /\ n.token.content = <<"+">>

IsValue(n) ==
    is_terminal(n.token.type_) \/ n.token.type_ = "Expression" \/ IsPostfix(n.token)

StartsValue(n) ==
    \/ is_terminal(n.token.type_) \/ n.token.type_ = "Expression"
    \/ n.token.type_ = "UnaryFunctionIdentifier"
    \/ IsPrefix(n.token)

Boundary(vec, i) == i > 1 /\ IsValue(vec[i - 1]) /\ StartsValue(vec[i])

ImplicitStar(position) ==
    [token   |-> [type_ |-> "BinaryOperator", content |-> <<"*">>,
                  position |-> position, implicit |-> TRUE],
     subtree |-> << >>,
     value   |-> << >>]

\* The sequence with one implicit `*` spliced in at every boundary.
RECURSIVE Spliced(_, _)
Spliced(vec, i) ==
    IF i > Len(vec) THEN << >>
    ELSE (IF Boundary(vec, i) THEN << ImplicitStar(vec[i].token.position) >> ELSE << >>)
         \o << vec[i] >> \o Spliced(vec, i + 1)

\* C7: in every level's sequence exactly one implicit BinaryOperator `*`,
\* positioned at the right-hand token, is inserted between each value and
\* the value start that follows it, nothing is inserted between any other
\* pair, and after the pass no value is directly followed by a value start.
C7_ImplicitMultiplication ==
    \A T \in Levels :
        IsOk(Disambiguated(T)) =>
            /\ IsOk(Multiplied(T))
            /\ Multiplied(T).tree._level = T._level
            /\ Multiplied(T).tree._vec = Spliced(Disambiguated(T).tree._vec, 1)
            /\ \A i \in DOMAIN Multiplied(T).tree._vec :
                   ~Boundary(Multiplied(T).tree._vec, i)

\* `2 x`, and a sequence of three values.
C7_Witness ==
    /\ Returned /\ result.kind = "Ok"
    /\ \E T \in Levels :
           /\ IsOk(Multiplied(T))
           /\ Len(Disambiguated(T).tree._vec) = 3
           /\ Len(Multiplied(T).tree._vec) = 5
           /\ Multiplied(T).tree._vec[2].token.implicit
           /\ Multiplied(T).tree._vec[4].token.implicit

\* The text starts, at the column of the token, with the characters of the
\* token (a group: with its opening parenthesis and then its content).
Anchored(tok, input, line, chr) ==
    LET k    == tok.position.chr - chr
        text == IF tok.type_ = "Expression" THEN << "(" >> \o tok.content
                ELSE tok.content
    IN  /\ tok.position.line = line
        /\ k >= 0
        /\ k + Len(text) <= Len(input)
        /\ SubSeq(input, k + 1, k + Len(text)) = text

\* The character an error of the tokenizer is about, by its message.
Offending(msg) ==
    IF msg = "Could not match open parenthesis with closing parenthesis" THEN {"("}
    ELSE IF msg = "Unexpected closing parenthesis" THEN {")"}
    ELSE IF msg = "Unknown operator" THEN OPERATOR_INITIAL_CHARS
    ELSE IF msg = "Unknown character"
    THEN Range(call.input) \ (IGNORABLE_WHITESPACE_CHARS \cup NUMERAL_INITIAL_CHARS
                              \cup IDENTIFIER_INITIAL_CHARS \cup OPERATOR_INITIAL_CHARS
                              \cup {"(", ")"})
    ELSE { }

TokenizerErrors ==
    {"Could not match open parenthesis with closing parenthesis",
     "Unexpected closing parenthesis", "Unknown operator", "Unknown character"}

PositionsAbsolute ==
    /\ result.kind = "Ok" =>
           \A n \in NodesOf(result.ast) :
               ~n.token.implicit => Anchored(n.token, call.input, call.line, call.chr)
    /\ (result.kind = "Err" /\ result.err.msg \in TokenizerErrors) =>
           LET k == result.err.position.chr - call.chr
           IN  /\ result.err.position.line = call.line
               /\ k >= 0 /\ k < Len(call.input)
               /\ call.input[k + 1] \in Offending(result.err.msg)

\* C11: positions are absolute at every nesting depth: after parse(text, line,
\* col) every non-implicit token of the returned tree, and every error of the
\* tokenizer (unknown character, unknown operator, unexpected `)`, unmatched
\* `(`), has line = line and column = col + the index in text of its first
\* character, inside parentheses too.
C11_PositionsAbsolute == Returned => PositionsAbsolute

\* The same on a Parser that holds no nodes of an earlier call.
C11_OnNewParser == (Returned /\ call.before = AstNew) => PositionsAbsolute

\* Every node of a that has a Value has the same Value in b, at every depth.
RECURSIVE ValuesKept(_, _)
ValuesKept(a, b) ==
    /\ Len(a._vec) = Len(b._vec)
    /\ \A k \in 1..Len(a._vec) :
           /\ a._vec[k].value # None => b._vec[k].value = a._vec[k].value
           /\ has_subtree(a._vec[k]) =>
                  /\ has_subtree(b._vec[k])
                  /\ ValuesKept(a._vec[k].subtree[1], b._vec[k].subtree[1])

FullyValued(ast) == \A n \in NodesOf(ast) : n.value # None

\* C12: a node that has a Value keeps it through every later evaluate call on
\* its tree, and an evaluate call on a tree whose nodes all have a Value
\* changes nothing and returns Ok, whatever the bindings are by then.
C12_IdempotentEvaluation ==
    [][ (result.kind = "Ok" /\ result'.kind = "Ok" /\ call' = call) =>
            /\ ValuesKept(result.ast, result'.ast)
            /\ (FullyValued(result.ast) /\ outcome' # outcome) =>
                   (result' = result /\ outcome'.status = "Ok") ]_vars

\* A fully valued tree has been evaluated a second time, with x bound to 3,
\* and its node x still has the Value 2 of the first evaluation.
C12_Witness ==
    /\ result.kind = "Ok"
    /\ FullyValued(result.ast)
    /\ Calls(outcome) = 2
    /\ outcome.status = "Ok"
    /\ outcome.store = variables
    /\ get(variables, <<"x">>) = Some(from_integer(3))
    /\ \E n \in NodesOf(result.ast) :
           n.token.content = <<"x">> /\ n.value = Some(from_integer(2))

\* The caller has evaluated, once, the tree parse returned for the text on a
\* Parser that held no nodes.
EvaluatedOnce(text) ==
    /\ call.made
    /\ call.input = text
    /\ call.before = AstNew
    /\ result.kind = "Ok"
    /\ Calls(outcome) = 1

Unbound(store, name) ==
    \A k \in DOMAIN store : to_lowercase(k) # to_lowercase(name)

\* C13: parsing `-x!` at top level and evaluating the tree while x is not
\* bound fails with the undefined-variable error, positioned at the x of the
\* text: the error comes before any operator or function is applied.
C13_UndefinedVariableFirst ==
    (EvaluatedOnce(<<"-", "x", "!">>) /\ Unbound(outcome.store, <<"x">>)) =>
        /\ outcome.status = "Err"
        /\ outcome.err.msg = "The variable is undefined"
        /\ outcome.err.position = Position(call.line, call.chr + 1)

\* A node of a binary operator whose two children have a Value.
BinaryOverValues(n) ==
    /\ n.token.type_ = "BinaryOperator"
    /\ Len(children(n)) = 2
    /\ \A k \in 1..2 : children(n)[k].value # None

\* C14: `2+3` parses to a root `+` over the Integers 2 and 3 and evaluation
\* gives the root the Value Integer 5; and no evaluation ends in a panic at a
\* binary operator whose two children have a Value: it gives the node a Value
\* or reports an error.
C14_BinaryOperatorEvaluates ==
    /\ EvaluatedOnce(<<"2", "+", "3">>) =>
           /\ Len(result.ast._vec) = 1
           /\ result.ast._vec[1].token.content = <<"+">>
           /\ Len(children(result.ast._vec[1])) = 2
           /\ children(result.ast._vec[1])[1].value = Some(from_integer(2))
           /\ children(result.ast._vec[1])[2].value = Some(from_integer(3))
           /\ outcome.status = "Ok"
           /\ result.ast._vec[1].value = Some(from_integer(5))
    /\ (result.kind = "Ok" /\ outcome.status = "Panic") =>
           \A n \in NodesOf(result.ast) : BinaryOverValues(n) => n.value # None

\* The caller holds what became of a Value it constructed.
Converted == held.kind \in {"Value", "Err"}

\* C15: an Integer i with 0 <= i <= 2^127 - 1 converts to a Bitseq, and that
\* Bitseq converts back to the Integer i; the conversion of a negative
\* Integer to a Bitseq fails with a ConversionError.  (An i128 holds no
\* Integer above 2^127 - 1.)
C15_IntegerRoundTrip ==
    (Converted /\ held.origin.by = "from_integer") =>
        LET i == held.origin.i
        IN  /\ (~IsNegative(i) /\ held.path = <<"Bitseq">>) =>
                   (held.kind = "Value" /\ held.value.type_ = "Bitseq")
            /\ (~IsNegative(i) /\ held.path = <<"Bitseq", "Integer">>) =>
                   (held.kind = "Value" /\ held.value = from_integer(i))
            /\ (IsNegative(i) /\ held.path = <<"Bitseq">>) =>
                   (held.kind = "Err" /\ held.err.kind = "ConversionError")

\* The Integer 2^127 - 1 has been converted to a Bitseq and back.
C15_Witness ==
    /\ held.kind = "Value"
    /\ held.origin.by = "from_integer"
    /\ held.origin.i = Word(Ones(BitseqT_BITS - 1))
    /\ held.path = <<"Bitseq", "Integer">>

\* The Bitseq a constructor call returned.
OriginBitseq(origin) ==
    CASE origin.by = "from_str" -> BitseqFromStrWord(origin.s)[1]
      [] origin.by = "from"     -> BitseqFrom(origin.value)
      [] origin.by = "new"      -> [value |-> origin.value, len |-> origin.len]

\* A Bitseq of a width from 1 to 127 whose bits fit its width.
WellFormed(b) ==
    /\ b.len \in 1..(BitseqT_BITS - 1)
    /\ leading_zeros(b.value) >= BitseqT_BITS - b.len

\* C16: every Bitseq of width w and bits v converts to the Integer v, and
\* that Integer converts back to a Bitseq of width w and bits v.
C16_BitseqRoundTrip ==
    (Converted /\ held.origin.by \in {"from_str", "from", "new"}
               /\ WellFormed(OriginBitseq(held.origin))) =>
        LET b == OriginBitseq(held.origin)
        IN  /\ held.path = <<"Integer">> =>
                   (held.kind = "Value" /\ held.value = from_integer(b.value))
            /\ held.path = <<"Integer", "Bitseq">> =>
                   (held.kind = "Value" /\ held.value = from_bitseq(b))

\* C17: every Bitseq that a constructor or a conversion gives has a width
\* from 1 to 127.
C17_BitseqWidth ==
    (held.kind = "Value" /\ held.value.type_ = "Bitseq") =>
        held.value.val_bitseq.len \in 1..(BitseqT_BITS - 1)

\* A node of the operator `~` whose only child has a Bitseq as its Value.
NegatesBitseq(n) ==
    /\ n.token.content = <<"~">>
    /\ Len(children(n)) = 1
    /\ children(n)[1].value # None
    /\ children(n)[1].value[1].type_ = "Bitseq"

\* C18: `~` on a Bitseq of width len and bits v gives the Bitseq of width len
\* and bits (2^len - 1) - v, which has no bit above len; `~` on that result
\* gives the original Bitseq back.
C18_BitwiseNegation ==
    result.kind = "Ok" =>
        \A n \in NodesOf(result.ast) :
            NegatesBitseq(n) =>
                LET b == children(n)[1].value[1].val_bitseq
                IN  /\ n.value = Some(from_bitseq([value |-> (Pow2(b.len) - 1) - b.value,
                                                   len   |-> b.len]))
                    /\ n.value[1].val_bitseq.value < Pow2(b.len)
                    /\ NegatesBitseq(children(n)[1]) =>
                           n.value = children(children(n)[1])[1].value

\* `~ ~0b101` has been evaluated: the inner `~` has width 3 and bits 2, the
\* outer one width 3 and bits 5.
C18_Witness ==
    /\ EvaluatedOnce(<<"~", " ", "~", "0", "b", "1", "0", "1">>)
    /\ outcome.status = "Ok"
    /\ result.ast._vec[1].value = Some(from_bitseq([value |-> 5, len |-> 3]))
    /\ children(result.ast._vec[1])[1].value = Some(from_bitseq([value |-> 2, len |-> 3]))

\* A node of the operator `!` whose only child has an Integer as its Value.
FactorialOfInteger(n) ==
    /\ n.token.content = <<"!">>
    /\ Len(children(n)) = 1
    /\ children(n)[1].value # None
    /\ children(n)[1].value[1].type_ = "Integer"

RECURSIVE Product(_)
Product(k) == IF k = 0 THEN 1 ELSE k * Product(k - 1)

\* The messages that recommend the gamma approximation.
RecommendsGamma ==
    {"Factorial exceeds size of Integer type, consider approximating the factorial via gamma (x + 1)"}

\* C19: `!` on an Integer k gives the Integer 1 * 2 * ... * k for k from 0 on
\* (1 for 0; checked up to 12!, the last product a 32-bit number holds), fails
\* with an InvalidOperationError for k < 0, and `100!` fails with an
\* InvalidOperationError that recommends the gamma approximation.
C19_Factorial ==
    (result.kind = "Ok" /\ Calls(outcome) >= 1) =>
        /\ \A n \in NodesOf(result.ast) :
               FactorialOfInteger(n) =>
                   LET k == children(n)[1].value[1].val_integer
                   IN  /\ k \in 0..12 => n.value = Some(from_integer(Product(k)))
                       /\ k < 0 => /\ n.value = None
                                   /\ outcome.status = "Err"
                                   /\ outcome.err.kind = "InvalidOperationError"
        /\ call.input = <<"1", "0", "0", "!">> =>
               /\ outcome.status = "Err"
               /\ outcome.err.kind = "InvalidOperationError"
               /\ outcome.err.msg \in RecommendsGamma

\* The spellings looked up: the names the caller binds, and D of
\* Evaluator::new in both cases.
Spellings == Identifiers \cup {<<"d">>, <<"D">>}

\* C20: the keys of the ValueStore are case-insensitive: a key that was set
\* is found, with its value, under every spelling that differs from it in
\* letter case only, and no two keys of the store differ in letter case only
\* (set under another spelling replaces the binding).
C20_CaseInsensitiveKeys ==
    \A k \in DOMAIN variables :
        /\ \A j \in Spellings :
               to_lowercase(j) = to_lowercase(k) => get(variables, j) = Some(variables[k])
        /\ \A j \in DOMAIN variables : to_lowercase(j) = to_lowercase(k) => j = k


\* ------------------------------------------------------------------------
\* C21..C23: the ValueStore of an Environment
\* ------------------------------------------------------------------------

Wrote(op) == op.made /\ op.name \in {"set", "set_readonly"}

\* C21: a write (set or set_readonly) to a key that an earlier successful
\* set_readonly marked readonly returns false and leaves every binding of the
\* store as it was; set on a key that is not readonly returns true and binds
\* the key to the value.
C21_ReadonlyRejectsWrites ==
    LET op == environment.op
    IN  Wrote(op) =>
            IF op.identifier \in op.before.readonly
            THEN /\ op.returned = "false"
                 /\ environment.vs.map = op.before.map
            ELSE op.name = "set" =>
                     /\ op.returned = "true"
                     /\ get(environment.vs.map, op.identifier) = Some(op.value)

Seeded(name) == get(EnvironmentDefault.map, name)

\* C22: on a default Environment on which clear_all was never called, get of
\* pi, tau and e returns the constants seeded at construction, whatever set,
\* set_readonly and clear calls were made.
C22_ConstantsSurvive ==
    (environment.from = "default" /\ ~environment.wiped) =>
        \A name \in {Pi, <<"t", "a", "u">>, <<"e">>} :
            /\ Seeded(name) # None
            /\ get(environment.vs.map, name) = Seeded(name)

IsProtected(vs, k) == \E i \in DOMAIN vs._protected_keys : vs._protected_keys[i] = k

\* C23: clear leaves every protected binding present with its value, removes
\* every binding whose key is not protected, adds none and leaves the
\* protected keys as they were; clear_all leaves no binding and no protected
\* key.
C23_ClearKeepsProtected ==
    LET op == environment.op
        before == IF op.made THEN op.before ELSE environment.vs
        after == environment.vs
    IN  /\ (op.made /\ op.name = "clear") =>
               /\ \A k \in DOMAIN before.map :
                      IF IsProtected(before, k)
                      THEN k \in DOMAIN after.map /\ after.map[k] = before.map[k]
                      ELSE k \notin DOMAIN after.map
               /\ DOMAIN after.map \subseteq DOMAIN before.map
               /\ after._protected_keys = before._protected_keys
        /\ (op.made /\ op.name = "clear_all") =>
               /\ DOMAIN after.map = {}
               /\ Len(after._protected_keys) = 0

\* A clear on a store that held a protected binding and one that was not
\* protected.
C23_Witness ==
    LET op == environment.op
    IN  /\ op.made
        /\ op.name = "clear"
        /\ \E k \in DOMAIN op.before.map : IsProtected(op.before, k)
        /\ \E k \in DOMAIN op.before.map : ~IsProtected(op.before, k)
        /\ Len(op.before._protected_keys) > 0


\* ------------------------------------------------------------------------
\* C24: unary terms
\* ------------------------------------------------------------------------

\* A node without its levels: its token and the shapes of its children.
RECURSIVE Shape(_)
Shape(n) == << n.token, [i \in 1..Len(children(n)) |-> Shape(children(n)[i])] >>

IsPrefixNode(n) ==
    /\ ~has_subtree(n)
    /\ (IsPrefix(n.token) \/ n.token.type_ = "UnaryFunctionIdentifier")

IsPostfixNode(n) == ~has_subtree(n) /\ IsPostfix(n.token)

IsOperandNode(n) ==
    \/ is_terminal(n.token.type_) /\ ~has_subtree(n)
    \/ n.token.type_ = "Expression" /\ has_subtree(n)

IsBinaryOperatorNode(n) == ~has_subtree(n) /\ n.token.type_ = "BinaryOperator"

\* vec[a..b] is prefix operators and functions, an operand, factorials.
IsTerm(vec, a, b) ==
    /\ 1 <= a /\ a <= b /\ b <= Len(vec)
    /\ \E k \in a..b :
           /\ \A i \in a..(k - 1) : IsPrefixNode(vec[i])
           /\ IsOperandNode(vec[k])
           /\ \A i \in (k + 1)..b : IsPostfixNode(vec[i])

\* u1(u2(... um(((v)!)!) ...)) for the term vec[a..b].
RECURSIVE TermShape(_, _, _)
TermShape(vec, a, b) ==
    IF IsPrefixNode(vec[a]) THEN << vec[a].token, << TermShape(vec, a + 1, b) >> >>
    ELSE IF a < b THEN << vec[b].token, << TermShape(vec, a, b - 1) >> >>
    ELSE Shape(vec[a])

\* The shape the claim gives a sequence that is one term with a unary
\* operator, or two terms around a binary operator, one of them with a unary
\* operator; no shape for any other sequence.
UnaryShapes(vec) ==
    { TermShape(vec, 1, Len(vec)) : k \in { j \in {1} : Len(vec) > 1 /\ IsTerm(vec, 1, Len(vec)) } }
        \cup { << vec[j].token, << TermShape(vec, 1, j - 1), TermShape(vec, j + 1, Len(vec)) >> >> :
                   j \in { i \in 2..(Len(vec) - 1) :
                              /\ Len(vec) > 3
                              /\ IsBinaryOperatorNode(vec[i])
                              /\ IsTerm(vec, 1, i - 1)
                              /\ IsTerm(vec, i + 1, Len(vec)) } }

\* The sequence of a group as the folding passes receive it, and what they
\* make of it.
Folded(T) == incorporate_operands(Multiplied(T).tree)

HasToken(text) == \E i \in DOMAIN text : text[i] \notin IGNORABLE_WHITESPACE_CHARS

\* C25: a successful parse of an input with at least one token returns a
\* top-level sequence of exactly one node, and in the returned tree the
\* subtree of every parenthesised Expression with non-empty content holds
\* exactly one node.
C25_OneTreePerGroup ==
    (Returned /\ result.kind = "Ok") =>
        /\ HasToken(call.input) => Len(result.ast._vec) = 1
        /\ \A n \in NodesOf(result.ast) :
               (n.token.type_ = "Expression" /\ HasToken(n.token.content)) =>
                   Len(children(n)) = 1


\* ------------------------------------------------------------------------
\* C26, C27: levels
\* ------------------------------------------------------------------------

\* Every subtree in ast has a level one greater than the Ast that contains
\* its node, at every depth.
RECURSIVE LevelsNested(_)
LevelsNested(ast) ==
    \A i \in DOMAIN ast._vec :
        has_subtree(ast._vec[i]) =>
            /\ ast._vec[i].subtree[1]._level = ast._level + 1
            /\ LevelsNested(ast._vec[i].subtree[1])

\* C26: the Ast a successful parse returns has level 0, and at every depth
\* the subtree of a node has a level one greater than the Ast that contains
\* the node.
C26_LevelsOfParsedTree ==
    result.kind = "Ok" =>
        /\ result.ast._level = 0
        /\ LevelsNested(result.ast)


\* A parsed group that holds a prefix operator over an operand with a
\* subtree of its own.
C26_Witness ==
    /\ result.kind = "Ok"
    /\ \E n \in NodesOf(result.ast) :
           /\ n.token.type_ = "Expression"
           /\ Len(children(n)) = 1
           /\ IsPrefix(children(n)[1].token)
           /\ Len(children(children(n)[1])) = 1
           /\ has_children(children(children(n)[1])[1])

Attaches(op) == op.made /\ op.name \in {"push", "push_subtree", "from_node", "from_vec"}

\* C27: after push, push_subtree, From<AstNode> and From<Vec<AstNode>>,
\* the subtree of every node the call attached has the level of the
\* receiving Ast plus one, and the subtrees below it are nested likewise.
C27_AttachKeepsLevels ==
    Attaches(built.op) =>
        \A i \in built.op.first..Len(built.ast._vec) :
            has_subtree(built.ast._vec[i]) =>
                /\ built.ast._vec[i].subtree[1]._level = built.ast._level + 1
                /\ LevelsNested(built.ast._vec[i].subtree[1])


\* ------------------------------------------------------------------------
\* C28: conversions are all or nothing
\* ------------------------------------------------------------------------

\* The number a Value denotes: its sign, its whole part and whether a half
\* is added.
Number(v) ==
    CASE v.type_ = "Integer" ->
             IF IsNegative(v.val_integer) THEN Dec(TRUE, Negate(v.val_integer), FALSE)
             ELSE Dec(FALSE, v.val_integer, FALSE)
      [] v.type_ = "Bitseq"  -> Dec(FALSE, v.val_bitseq.value, FALSE)
      [] OTHER               -> v.val_decimal

\* Only the payload of the Value's type is populated.
OnePayload(v) ==
    CASE v.type_ = "Integer" -> v = from_integer(v.val_integer)
      [] v.type_ = "Bitseq"  -> v = from_bitseq(v.val_bitseq)
      [] OTHER               -> v = from_decimal(v.val_decimal)

\* C28: after try_mutate_into(T) succeeded the Value has type T, only the
\* payload of T is populated and the Value denotes the number it denoted
\* before; after it failed the error is a ConversionError and the Value is
\* as it was; try_mutate_into of the Value's own type succeeds and changes
\* nothing.
C28_AllOrNothing ==
    (held.kind \in {"Value", "Err"} /\ Len(held.path) > 0) =>
        LET T == held.path[Len(held.path)]
        IN  /\ held.kind = "Value" =>
                   /\ held.value.type_ = T
                   /\ OnePayload(held.value)
                   /\ Number(held.value) = Number(held.before)
            /\ held.kind = "Err" =>
                   /\ held.err.kind = "ConversionError"
                   /\ held.value = held.before
            /\ T = held.before.type_ =>
                   (held.kind = "Value" /\ held.value = held.before)

\* The paths of the nodes of a Vec of nodes: the indices from the top-level
\* node down to the node.
RECURSIVE PathsOf(_)
PathsOf(vec) ==
    UNION { { <<k>> } \cup { <<k>> \o p : p \in PathsOf(children(vec[k])) } :
            k \in 1..Len(vec) }

RECURSIVE NodeAt(_, _)
NodeAt(vec, p) ==
    IF Len(p) = 1 THEN vec[p[1]] ELSE NodeAt(children(vec[p[1]]), Tail(p))

IsAncestor(a, p) == Len(a) < Len(p) /\ SubSeq(p, 1, Len(a)) = a

IsRightSibling(s, p) ==
    /\ Len(s) = Len(p)
    /\ SubSeq(s, 1, Len(s) - 1) = SubSeq(p, 1, Len(p) - 1)
    /\ s[Len(s)] > p[Len(p)]

\* p is evaluated before q: p lies below q, or left of q where they part.
EvaluatedBefore(p, q) ==
    \/ IsAncestor(q, p)
    \/ \E i \in 1..Len(p) :
           /\ i <= Len(q)
           /\ SubSeq(p, 1, i - 1) = SubSeq(q, 1, i - 1)
           /\ p[i] < q[i]

Unvalued(vec, p) == NodeAt(vec, p).value = None

\* The node at which the evaluation stopped: the first node, in the order of
\* evaluation, that has no Value.
IsFailing(vec, p) ==
    /\ p \in PathsOf(vec)
    /\ Unvalued(vec, p)
    /\ \A q \in PathsOf(vec) : EvaluatedBefore(q, p) => ~Unvalued(vec, q)

BottomUp(ast) ==
    \A n \in NodesOf(ast) :
        (~is_terminal(n.token.type_) /\ n.value # None) =>
            /\ has_children(n)
            /\ \A c \in Range(children(n)) : c.value # None

FailFast(ast) ==
    \E p \in PathsOf(ast._vec) :
        /\ IsFailing(ast._vec, p)
        /\ \A q \in PathsOf(ast._vec) :
               (IsAncestor(q, p) \/ IsRightSibling(q, p)) => Unvalued(ast._vec, q)

\* C29: after any sequence of evaluate calls on a parsed Ast a non-terminal
\* node has a Value only if all of its children have Values; after an
\* evaluate call returned an error the node at which it stopped and all of
\* its ancestors have no Value and the siblings to its right have none; an
\* evaluate call leaves the variables of the Environment as they were.
C29_BottomUpFailFast ==
    /\ [](result.kind = "Ok" => BottomUp(result.ast))
    /\ []((result.kind = "Ok" /\ outcome.status = "Err") => FailFast(result.ast))
    /\ [][Calls(outcome') = Calls(outcome) + 1 => variables' = variables]_vars

\* An evaluate call returned an error from a node that has an ancestor and a
\* sibling to its right.
C29_Witness ==
    /\ result.kind = "Ok"
    /\ outcome.status = "Err"
    /\ \E p \in PathsOf(result.ast._vec) :
           /\ IsFailing(result.ast._vec, p)
           /\ \E q \in PathsOf(result.ast._vec) : IsAncestor(q, p)
           /\ \E q \in PathsOf(result.ast._vec) : IsRightSibling(q, p)

\* The binary digits a numeral text writes after its radix prefix.
WrittenDigits(content) ==
    Cardinality({ k \in 3..Len(content) : content[k] \in {"0", "1"} })

\* C30: a numeral token that Value::from_str accepted has the kind of the
\* Value it was evaluated to, in every spelling of the radix prefix and of
\* the fractional separator, and the Value of a Bitseq literal is as wide
\* as the literal has digits.
C30_TokenKindIsValueVariant ==
    result.kind = "Ok" =>
        \A n \in NodesOf(result.ast) :
            (is_numeral(n.token.type_) /\ n.value # None) =>
                /\ n.value[1].type_ = n.token.type_
                /\ n.value[1].type_ = "Bitseq" =>
                       n.value[1].val_bitseq.len = WrittenDigits(n.token.content)

====
